---- MODULE Spec2Model ----
(***************************************************************************)
(* Verification model of linmath.hpp: the capability detector              *)
(* (simd::runtime_level), the dispatch gate (simd::max_level), and the     *)
(* vector / matrix kernels with their SSE2 / NEON / scalar paths.          *)
(*                                                                         *)
(* Floats are IEEE-754 binary32 restricted to finite integer values:       *)
(* every operation computes the exact integer result and rounds it to a    *)
(* 24-bit significand, round-to-nearest, ties-to-even.                     *)
(***************************************************************************)
EXTENDS Integers, Sequences, FiniteSets, TLC

VARIABLES
    build,    \* the set of predefined macros of the translation unit
    hw,       \* what CPUID / XGETBV answer on the machine
    lvl,      \* the function-local static `lvl` of simd::max_level()
    lastSet,  \* history: the level of the most recent override, or "nil"
    test,     \* the test case "mat4 SIMD path equals scalar path": pc and locals
    tprior,   \* history: the ceiling in force when the test saved it
    arg,      \* the operands drawn for the kernel under examination
    op        \* the last operation: its arguments, the ceiling it read, path, result

vars == <<build, hw, lvl, lastSet, test, tprior, arg, op>>

----------------------------------------------------------------------------
(* Bounds of the model *)

MaxCoord == 2        \* small operands range over -MaxCoord .. MaxCoord
MaxDim   == 4        \* matrix shapes range over 2 .. MaxDim

(* Program constants *)

MantBits == 24       \* significand width of `float`

----------------------------------------------------------------------------
(* float arithmetic: exact result, then one rounding *)

Abs(x) == IF x < 0 THEN -x ELSE x

RECURSIVE UlpOf(_, _)
UlpOf(m, u) == IF m \div u < 2^MantBits THEN u ELSE UlpOf(m, 2 * u)

RoundF(x) ==
    LET m == Abs(x)
        u == UlpOf(m, 1)
        q == m \div u
        r == m % u
        n == IF 2 * r > u \/ (2 * r = u /\ q % 2 = 1) THEN q + 1 ELSE q
    IN  IF x < 0 THEN -(n * u) ELSE n * u

----------------------------------------------------------------------------
(* float in full: IEEE-754 binary32 with fractions, subnormals, infinities *)
(* and NaN.  A value is <<s, b>>: s the sign bit, b the remaining 31 bits  *)
(* (8 exponent bits, 23 fraction bits).  Round-to-nearest, ties-to-even.   *)

FracBits == MantBits - 1

Hidden == 2 ^ FracBits               \* the implicit leading significand bit

ExpAllOnes == 255                    \* exponent field of infinities and NaN

InfBits == ExpAllOnes * Hidden

F32(s, b) == <<s, b>>

F32Zero == F32(0, 0)

F32Inf(s) == F32(s, InfBits)

F32NaN == F32(0, InfBits + Hidden \div 2)

ExpField(x) == x[2] \div Hidden

FracField(x) == x[2] % Hidden

IsNaN(x) == x[2] > InfBits

IsInf(x) == x[2] = InfBits

IsZero(x) == x[2] = 0

IsFinite(x) == x[2] < InfBits

\* a finite x is Sig(x) * 2^SigExp(x)
Sig(x) == IF ExpField(x) = 0 THEN FracField(x) ELSE FracField(x) + Hidden

SigExp(x) == IF ExpField(x) = 0 THEN -149 ELSE ExpField(x) - 150

XorSign(x, y) == (x[1] + y[1]) % 2

RECURSIVE NormSig(_, _)
\* a non-zero significand shifted left until its top bit is the hidden bit
NormSig(m, e) == IF m >= Hidden THEN <<m, e>> ELSE NormSig(2 * m, e - 1)

RECURSIVE Norm26(_, _, _)
\* (M + sticky) * 2^e brought to 26 significant bits, or to e = -151 if that
\* comes first (subnormal results); bits shifted out are kept in the sticky
Norm26(M, e, st) ==
    IF M = 0 THEN <<0, -151, st>>
    ELSE IF M >= 4 * 2^MantBits \/ e < -151
         THEN Norm26(M \div 2, e + 1, st \/ M % 2 = 1)
    ELSE IF M < 2 * 2^MantBits /\ e > -151
         THEN Norm26(2 * M, e - 1, st)
    ELSE <<M, e, st>>

\* rounds (M + sticky) * 2^e to the nearest float of sign s
RoundPack(s, M, e, st) ==
    LET n26 == Norm26(M, e, st)
        q   == n26[1] \div 4
        low == n26[1] % 4
        up  == low = 3 \/ (low = 2 /\ (n26[3] \/ q % 2 = 1))
        n   == IF up THEN q + 1 ELSE q
        ex  == n26[2] + 151
    IN  IF ex >= ExpAllOnes THEN F32Inf(s)
        ELSE IF ex * Hidden + n >= InfBits THEN F32Inf(s)
        ELSE F32(s, ex * Hidden + n)

f32_neg(x) == CHOOSE r \in {F32(1 - a[1], a[2]) : a \in {x}} : TRUE

\* m shifted right by d bits, any bit lost or-ed into the lowest bit kept
ShiftRightJam(m, d) ==
    IF d >= 31 THEN (IF m = 0 THEN 0 ELSE 1)
    ELSE LET q == m \div 2^d
         IN  IF m % 2^d # 0 /\ q % 2 = 0 THEN q + 1 ELSE q

f32_add_rn(x, y) ==
    IF IsNaN(x) \/ IsNaN(y) THEN F32NaN
    ELSE IF IsInf(x) THEN (IF IsInf(y) /\ x[1] # y[1] THEN F32NaN ELSE x)
    ELSE IF IsInf(y) THEN y
    ELSE IF IsZero(x) /\ IsZero(y) THEN (IF x[1] = y[1] THEN x ELSE F32Zero)
    ELSE IF IsZero(y) THEN x
    ELSE IF IsZero(x) THEN y
    ELSE IF x[2] = y[2] /\ x[1] # y[1] THEN F32Zero
    ELSE LET big   == IF x[2] >= y[2] THEN x ELSE y
             small == IF x[2] >= y[2] THEN y ELSE x
             M1    == Sig(big) * 64
             M2    == ShiftRightJam(Sig(small) * 64, SigExp(big) - SigExp(small))
             R     == IF x[1] = y[1] THEN M1 + M2 ELSE M1 - M2
         IN  RoundPack(big[1], R, SigExp(big) - 6, FALSE)

\* x + y: both operands are evaluated, then the sum is rounded
f32_add(x, y) == CHOOSE r \in {f32_add_rn(a, b) : a \in {x}, b \in {y}} : TRUE

f32_sub(x, y) == f32_add(x, f32_neg(y))

\* the 48-bit product of two 24-bit significands, as <<top 30 bits, sticky>>
SigProduct(m1, m2) ==
    LET a1  == m1 \div 4096
        b1  == m1 % 4096
        a2  == m2 \div 4096
        b2  == m2 % 4096
        mid == a1 * b2 + a2 * b1
        L   == b1 * b2 + (mid % 4096) * 4096
        H   == a1 * a2 + mid \div 4096 + L \div 2^MantBits
        lo  == L % 2^MantBits
    IN  <<H * 64 + lo \div 2^18, lo % 2^18 # 0>>

f32_mul_rn(x, y) ==
    LET s == XorSign(x, y)
    IN  IF IsNaN(x) \/ IsNaN(y) THEN F32NaN
        ELSE IF IsInf(x) \/ IsInf(y)
             THEN (IF IsZero(x) \/ IsZero(y) THEN F32NaN ELSE F32Inf(s))
        ELSE IF IsZero(x) \/ IsZero(y) THEN F32(s, 0)
        ELSE LET nx == NormSig(Sig(x), SigExp(x))
                 ny == NormSig(Sig(y), SigExp(y))
                 P  == SigProduct(nx[1], ny[1])
             IN  RoundPack(s, P[1], nx[2] + ny[2] + 18, P[2])

\* x * y: both operands are evaluated, then the product is rounded
f32_mul(x, y) == CHOOSE r \in {f32_mul_rn(a, b) : a \in {x}, b \in {y}} : TRUE

RECURSIVE LongDiv(_, _, _, _)
\* k more quotient bits of rem / d (rem < 2d): <<quotient, remainder # 0>>
LongDiv(rem, d, q, k) ==
    IF k = 0 THEN <<q, rem # 0>>
    ELSE IF rem >= d THEN LongDiv(2 * (rem - d), d, 2 * q + 1, k - 1)
                     ELSE LongDiv(2 * rem, d, 2 * q, k - 1)

f32_div_rn(x, y) ==
    LET s == XorSign(x, y)
    IN  IF IsNaN(x) \/ IsNaN(y) THEN F32NaN
        ELSE IF IsInf(x) THEN (IF IsInf(y) THEN F32NaN ELSE F32Inf(s))
        ELSE IF IsInf(y) THEN F32(s, 0)
        ELSE IF IsZero(y) THEN (IF IsZero(x) THEN F32NaN ELSE F32Inf(s))
        ELSE IF IsZero(x) THEN F32(s, 0)
        ELSE LET nx == NormSig(Sig(x), SigExp(x))
                 ny == NormSig(Sig(y), SigExp(y))
                 Q  == LongDiv(nx[1], ny[1], 0, 27)
             IN  RoundPack(s, Q[1], nx[2] - ny[2] - 26, Q[2])

\* x / y: both operands are evaluated, then the quotient is rounded
f32_div(x, y) == CHOOSE r \in {f32_div_rn(a, b) : a \in {x}, b \in {y}} : TRUE

\* the comparisons of C++: false on NaN, -0 equals +0
f32_eq(x, y) ==
    \E a \in {x}, b \in {y} :
        /\ ~IsNaN(a) /\ ~IsNaN(b)
        /\ (a = b \/ (IsZero(a) /\ IsZero(b)))

f32_lt(x, y) ==
    \E a \in {x}, b \in {y} :
        /\ ~IsNaN(a) /\ ~IsNaN(b)
        /\ ~(IsZero(a) /\ IsZero(b))
        /\ IF a[1] # b[1] THEN a[1] = 1
           ELSE IF a[1] = 0 THEN a[2] < b[2] ELSE a[2] > b[2]

f32_le(x, y) == \E a \in {x}, b \in {y} : f32_lt(a, b) \/ f32_eq(a, b)

f32_abs(x) == F32(0, x[2])

\* static_cast<float>(n) of an int n
f32_of_int(n) == IF n = 0 THEN F32Zero
                 ELSE RoundPack(IF n < 0 THEN 1 ELSE 0, Abs(n), 0, FALSE)

----------------------------------------------------------------------------
(* unsigned: 32 bits, arithmetic modulo 2^32.  A value is <<hi, lo>>, two  *)
(* 16-bit halves.                                                          *)

Half == 2 ^ 16

U32(hi, lo) == <<hi, lo>>

\* static_cast<unsigned>(n) of an int n (two's complement)
u32_of_int(n) == U32((n \div Half) % Half, n % Half)

u32_add(x, y) ==
    LET lo == x[2] + y[2]
    IN  U32((x[1] + y[1] + lo \div Half) % Half, lo % Half)

\* u32_sub that drops the borrow out of the low half
u32_sub_no_borrow(x, y) == U32((x[1] - y[1]) % Half, (x[2] - y[2]) % Half)

u32_sub(x, y) ==
    LET lo == x[2] - y[2]
    IN  U32((x[1] - y[1] + lo \div Half) % Half, lo % Half)

u32_mul(x, y) ==
    LET a  == x[2] * (y[2] \div 256)
        lo == (a % 256) * 256 + x[2] * (y[2] % 256)
        hi == x[1] * (y[2] % 256) + (x[1] % 256) * (y[2] \div 256) * 256
                + (x[2] % 256) * (y[1] % 256) + (x[2] \div 256) * (y[1] % 256) * 256
                + (x[2] % 256) * (y[1] \div 256) * 256
                + a \div 256 + lo \div Half
    IN  U32(hi % Half, lo % Half)

----------------------------------------------------------------------------
(* int: 32 bits, two's complement; overflow is undefined behaviour *)

IntMax == 2147483647

IntMin == -IntMax - 1

AddOverflows(x, y) ==
    \/ (y > 0 /\ x > IntMax - y)
    \/ (y < 0 /\ x < IntMin - y)

SubOverflows(x, y) ==
    \/ (y < 0 /\ x > IntMax + y)
    \/ (y > 0 /\ x < IntMin + y)

\* the int with the bit pattern of the unsigned u
int_of_u32(u) == IF u[1] >= Half \div 2 THEN (u[1] - Half) * Half + u[2]
                                       ELSE u[1] * Half + u[2]

\* x + y and x - y on a build where signed overflow wraps around
int_add_wrap(x, y) == int_of_u32(u32_add(u32_of_int(x), u32_of_int(y)))

int_sub_wrap(x, y) == int_of_u32(u32_sub(u32_of_int(x), u32_of_int(y)))

----------------------------------------------------------------------------
(* element arithmetic of template parameter T:                             *)
(*   "int"       exact integers (operands stay clear of overflow)          *)
(*   "unsigned"  <<hi, lo>>, modulo 2^32                                   *)
(*   "float"     integer-valued binary32                                   *)
(*   "f32"       binary32 in full                                          *)

Add(T, x, y) == CASE T = "float"    -> RoundF(x + y)
                  [] T = "f32"      -> f32_add(x, y)
                  [] T = "unsigned" -> u32_add(x, y)
                  [] OTHER          -> x + y

Sub(T, x, y) == CASE T = "float"    -> RoundF(x - y)
                  [] T = "f32"      -> f32_sub(x, y)
                  [] T = "unsigned" -> u32_sub(x, y)
                  [] OTHER          -> x - y

Mul(T, x, y) == CASE T = "float"    -> RoundF(x * y)
                  [] T = "f32"      -> f32_mul(x, y)
                  [] T = "unsigned" -> u32_mul(x, y)
                  [] OTHER          -> x * y

\* T(n) for a small integer literal n
Lit(T, n) == CASE T = "f32"      -> f32_of_int(n)
               [] T = "unsigned" -> u32_of_int(n)
               [] OTHER          -> n

\* unary minus
Neg(T, x) == CASE T = "f32"      -> f32_neg(x)
               [] T = "unsigned" -> u32_sub(u32_of_int(0), x)
               [] OTHER          -> -x

fadd(x, y) == Add("float", x, y)
fmul(x, y) == Mul("float", x, y)

----------------------------------------------------------------------------
(* libc_integration.hpp: the portable sinf, cosf and sqrtf *)

PI        == F32(0, 1078530011)      \* 3.14159265359f  = 0x40490FDB
PI_HALF   == F32(0, 1070141403)      \* 1.57079632679f  = 0x3FC90FDB
PI_DOUBLE == F32(0, 1086918619)      \* 6.28318530718f  = 0x40C90FDB

F32One == f32_of_int(1)

F32Half == f32_div(F32One, f32_of_int(2))         \* 0.5f

F32OneAndHalf == f32_div(f32_of_int(3), f32_of_int(2))   \* 1.5f

RECURSIVE ReduceDown(_)
\* while (X >= PI_DOUBLE) X -= PI_DOUBLE;
ReduceDown(X) ==
    IF f32_le(PI_DOUBLE, X) THEN ReduceDown(f32_sub(X, PI_DOUBLE)) ELSE X

RECURSIVE ReduceUp(_)
\* while (X < 0.f) X += PI_DOUBLE;
ReduceUp(X) ==
    IF f32_lt(X, F32Zero) THEN ReduceUp(f32_add(X, PI_DOUBLE)) ELSE X

\* if (X > PI) { X -= PI; flip = true; }
FoldPi(X) == IF f32_lt(PI, X) THEN f32_sub(X, PI) ELSE X

\* if (X > PI_HALF) X = PI - X;
FoldHalfPi(X) == IF f32_lt(PI_HALF, X) THEN f32_sub(PI, X) ELSE X

\* result = X * (1.f - x2/6.f + x2*x2/120.0f);  return flip ? -result : result;
SinPoly(X, x2, flip) ==
    IF flip
    THEN f32_neg(f32_mul(X, f32_add(f32_sub(F32One, f32_div(x2, f32_of_int(6))),
                                    f32_div(f32_mul(x2, x2), f32_of_int(120)))))
    ELSE f32_mul(X, f32_add(f32_sub(F32One, f32_div(x2, f32_of_int(6))),
                            f32_div(f32_mul(x2, x2), f32_of_int(120))))

\* x2 is taken from the argument before the range reduction
sinf(X0) ==
    CHOOSE r \in {SinPoly(FoldHalfPi(FoldPi(X1)), x2, f32_lt(PI, X1)) :
                      X1 \in {ReduceUp(ReduceDown(X0))}, x2 \in {f32_mul(X0, X0)}} : TRUE

cosf(X) == sinf(f32_add(X, PI_HALF))

MagicNumber == 1597463007            \* 0x5f3759df

\* What `float y = *(float*)&u.i` reads.  The access breaks the aliasing
\* rule: a build either reads the bits just stored through u.i, or the
\* float X the union was initialised with (the load moved above the store).
PunReads == {"bits", "stale"}

sqrtf(X, pun) ==
    IF f32_le(X, F32Zero) THEN F32Zero
    ELSE IF IsNaN(X) THEN F32NaN
    ELSE LET x_half == f32_mul(F32Half, X)
             y0     == IF pun = "bits" THEN F32(0, MagicNumber - X[2] \div 2) ELSE X
             y      == f32_mul(y0, f32_sub(F32OneAndHalf,
                                           f32_mul(f32_mul(x_half, y0), y0)))
         IN  f32_mul(X, y)

----------------------------------------------------------------------------
(* simd::level and the build configurations *)

Levels == {"none", "sse2", "avx", "avx2", "neon"}

\* the macro sets of the builds considered
Builds ==
    { {"__x86_64__"},                                   \* LMATH_FORCE_NO_SIMD
      {"__x86_64__", "__SSE2__"},
      {"__x86_64__", "__SSE2__", "__AVX__"},
      {"__x86_64__", "__SSE2__", "__AVX__", "__AVX2__"},
      {"__i386__", "__SSE2__"},                         \* 32-bit, -msse2
      {"_M_IX86", "_MSC_VER"},
      {"_M_IX86", "_MSC_VER", "__AVX__", "__AVX2__"},
      {"_M_X64", "_MSC_VER"},
      {"__aarch64__", "__ARM_NEON"},
      {"__aarch64__"},                                  \* LMATH_FORCE_NO_SIMD
      {} }

\* The #if opened before cpuid() is closed inside the body of xgetbv():
\* where its condition is false the closing brace of xgetbv() is left over
\* and closes namespace simd, so the header does not compile.
HeaderCompiles(b) ==
    "__i386__" \in b \/ "__x86_64__" \in b \/ "_M_IX86" \in b

\* bit positions set in the registers read by runtime_level()
HwStates ==
    [edx1 : SUBSET {26}, ecx1 : SUBSET {27, 28},
     xcr0 : SUBSET {1, 2}, ebx7 : SUBSET {5}]

\* runtime_level() as the preprocessor leaves it for build b
RuntimeLevelBody(b, h) ==
    IF "__x86_64__" \in b \/ "__i386__" \in b \/ "_M_IX86" \in b \/ "_M_X64" \in b
    THEN LET hw_sse2 == 26 \in h.edx1
             hw_avx  == 28 \in h.ecx1
             osxsave == 27 \in h.ecx1
             ymm_enabled == {1, 2} \subseteq h.xcr0
         IN  IF ("__AVX__" \in b \/ "_MSC_VER" \in b)
                /\ hw_avx /\ osxsave /\ ymm_enabled
             THEN IF "__AVX2__" \in b /\ 5 \in h.ebx7 THEN "avx2" ELSE "avx"
             ELSE IF ("__SSE2__" \in b \/ "_MSC_VER" \in b) /\ hw_sse2
                  THEN "sse2"
                  ELSE "none"
    ELSE IF "__aarch64__" \in b \/ "__ARM_NEON" \in b
         THEN "neon"
         ELSE "none"

runtime_level(b, h) ==
    IF HeaderCompiles(b) THEN RuntimeLevelBody(b, h) ELSE "ill_formed"

\* max_level() whose `lvl` is not static: every call runs the detection again
max_level_not_static(l, b, h) == runtime_level(b, h)

\* max_level(): the static is initialised by the first call, then returned
max_level(l, b, h) == IF l = "uninit" THEN runtime_level(b, h) ELSE l

----------------------------------------------------------------------------
(* vec<T,N>: a function on 0 .. N-1 *)

Idx(N) == 0 .. (N - 1)

VLen(V) == Cardinality(DOMAIN V)

MkVec4(x, y, z, w) == [i \in Idx(4) |-> CASE i = 0 -> x [] i = 1 -> y
                                           [] i = 2 -> z [] OTHER -> w]

RECURSIVE DotLoop(_, _, _, _, _)
DotLoop(T, A, B, i, res) ==
    IF i >= VLen(A) THEN res
    ELSE DotLoop(T, A, B, i + 1, Add(T, res, Mul(T, A[i], B[i])))

\* vec_dot: res starts at T{} and accumulates from index 0
vec_dot(T, A, B) == DotLoop(T, A, B, 0, Lit(T, 0))

vec_add(T, A, B) == [i \in DOMAIN A |-> Add(T, A[i], B[i])]

vec_sub(T, A, B) == [i \in DOMAIN A |-> Sub(T, A[i], B[i])]

vec_scale(T, V, S) == [i \in DOMAIN V |-> Mul(T, V[i], S)]

\* operator== on vec: elementwise !=
vec_eq(A, B) == \A i \in DOMAIN A : ~(A[i] # B[i])

----------------------------------------------------------------------------
(* The SSE and NEON intrinsics the kernels use, on 4-lane registers *)

mm_set1_ps(s)    == [i \in Idx(4) |-> s]
mm_mul_ps(a, b)  == [i \in Idx(4) |-> fmul(a[i], b[i])]
mm_add_ps(a, b)  == [i \in Idx(4) |-> fadd(a[i], b[i])]
mm_add_ss(a, b)  == [i \in Idx(4) |-> IF i = 0 THEN fadd(a[0], b[0]) ELSE a[i]]
mm_movehl_ps(a, b) == MkVec4(b[2], b[3], a[2], a[3])
\* _mm_shuffle_ps(a, b, _MM_SHUFFLE(z, y, x, w))
mm_shuffle_ps(a, b, z, y, x, w) == MkVec4(a[w], a[x], b[y], b[z])

vmulq_f32(a, b)        == [i \in Idx(4) |-> fmul(a[i], b[i])]
vmulq_n_f32(v, s)      == [i \in Idx(4) |-> fmul(v[i], s)]
vmlaq_n_f32(acc, v, s) == [i \in Idx(4) |-> fadd(acc[i], fmul(v[i], s))]

dot_sse2(a, b) ==
    LET mul   == mm_mul_ps(a, b)
        shuf  == mm_shuffle_ps(mul, mul, 2, 3, 0, 1)
        sums  == mm_add_ps(mul, shuf)
        shuf2 == mm_movehl_ps(shuf, sums)
        sums2 == mm_add_ss(sums, shuf2)
    IN  sums2[0]

dot_neon(a, b) ==
    LET mul  == vmulq_f32(a, b)
        sum0 == fadd(mul[0], mul[2])     \* vadd_f32(low, high), lane 0
        sum1 == fadd(mul[1], mul[3])     \* lane 1
    IN  fadd(sum0, sum1)

\* vec4_dot with the case labels of both families compiled in unconditionally
vec4_dot_unguarded(b, m, A, B) ==
    CASE m = "neon" ->
            [path |-> "neon", out |-> dot_neon(A, B)]
      [] m \in {"sse2", "avx", "avx2"} ->
            [path |-> "sse2", out |-> dot_sse2(A, B)]
      [] OTHER ->
            [path |-> "scalar", out |-> vec_dot("float", A, B)]

\* switch (simd::max_level()) of the three dispatching functions
vec4_dot(b, m, A, B) ==
    CASE m = "neon" /\ "__ARM_NEON" \in b ->
            [path |-> "neon", out |-> dot_neon(A, B)]
      [] m \in {"sse2", "avx", "avx2"} /\ "__SSE2__" \in b ->
            [path |-> "sse2", out |-> dot_sse2(A, B)]
      [] OTHER ->
            [path |-> "scalar", out |-> vec_dot("float", A, B)]

----------------------------------------------------------------------------
(* mat<T,C,R>: C columns, each a vec<T,R>; M[c][r] *)

Cols(M) == Cardinality(DOMAIN M)
Rows(M) == Cardinality(DOMAIN M[0])

\* mat_identity that also fills the upper triangle
mat_identity_upper(N) ==
    [i \in Idx(N) |-> [j \in Idx(N) |-> IF i <= j THEN 1 ELSE 0]]

mat_identity(N) ==
    [i \in Idx(N) |-> [j \in Idx(N) |-> IF i = j THEN 1 ELSE 0]]

RECURSIVE MulSum(_, _, _, _, _, _, _)
MulSum(T, A, B, c, r, k, sum) ==
    IF k >= Cols(A) THEN sum
    ELSE MulSum(T, A, B, c, r, k + 1, Add(T, sum, Mul(T, A[k][r], B[c][k])))

\* mat_mul that reads A row-major, A[r][k]
mat_mul_rowmajor(T, A, B) ==
    LET At == [c \in Idx(Cols(A)) |-> [r \in Idx(Cols(A)) |-> A[r][c]]]
    IN  [c \in Idx(Cols(A)) |-> [r \in Idx(Cols(A)) |-> MulSum(T, At, B, c, r, 0, Lit(T, 0))]]

\* mat_mul<T,N>: both operands are mat<T,N,N>
mat_mul(T, A, B) ==
    [c \in Idx(Cols(A)) |-> [r \in Idx(Cols(A)) |-> MulSum(T, A, B, c, r, 0, Lit(T, 0))]]

RECURSIVE MulVecSum(_, _, _, _, _, _)
MulVecSum(T, M, V, r, c, s) ==
    IF c >= Cols(M) THEN s
    ELSE MulVecSum(T, M, V, r, c + 1, Add(T, s, Mul(T, M[c][r], V[c])))

mat_mul_vec(T, M, V) == [r \in Idx(Cols(M)) |-> MulVecSum(T, M, V, r, 0, Lit(T, 0))]

mat4_mul_vec_sse2(M, V) ==
    LET vx == mm_set1_ps(V[0])
        vy == mm_set1_ps(V[1])
        vz == mm_set1_ps(V[2])
        vw == mm_set1_ps(V[3])
    IN  mm_add_ps(mm_add_ps(mm_mul_ps(M[0], vx), mm_mul_ps(M[1], vy)),
                  mm_add_ps(mm_mul_ps(M[2], vz), mm_mul_ps(M[3], vw)))

mat4_mul_vec_neon(M, V) ==
    LET r0 == vmulq_n_f32(M[0], V[0])
        r1 == vmlaq_n_f32(r0, M[1], V[1])
        r2 == vmlaq_n_f32(r1, M[2], V[2])
    IN  vmlaq_n_f32(r2, M[3], V[3])

mat4_mul_sse2(A, B) ==
    [c \in Idx(4) |->
        LET bx == mm_set1_ps(B[c][0])
            by == mm_set1_ps(B[c][1])
            bz == mm_set1_ps(B[c][2])
            bw == mm_set1_ps(B[c][3])
        IN  mm_add_ps(mm_add_ps(mm_mul_ps(A[0], bx), mm_mul_ps(A[1], by)),
                      mm_add_ps(mm_mul_ps(A[2], bz), mm_mul_ps(A[3], bw)))]

mat4_mul_neon(A, B) ==
    [c \in Idx(4) |->
        LET r0 == vmulq_n_f32(A[0], B[c][0])
            r1 == vmlaq_n_f32(r0, A[1], B[c][1])
            r2 == vmlaq_n_f32(r1, A[2], B[c][2])
        IN  vmlaq_n_f32(r2, A[3], B[c][3])]

mat4_mul(b, m, A, B) ==
    CASE m = "neon" /\ "__ARM_NEON" \in b ->
            [path |-> "neon", out |-> mat4_mul_neon(A, B)]
      [] m \in {"sse2", "avx", "avx2"} /\ "__SSE2__" \in b ->
            [path |-> "sse2", out |-> mat4_mul_sse2(A, B)]
      [] OTHER ->
            [path |-> "scalar", out |-> mat_mul("float", A, B)]

mat4_mul_vec(b, m, M, V) ==
    CASE m = "neon" /\ "__ARM_NEON" \in b ->
            [path |-> "neon", out |-> mat4_mul_vec_neon(M, V)]
      [] m \in {"sse2", "avx", "avx2"} /\ "__SSE2__" \in b ->
            [path |-> "sse2", out |-> mat4_mul_vec_sse2(M, V)]
      [] OTHER ->
            [path |-> "scalar", out |-> mat_mul_vec("float", M, V)]

\* mat4_translate that stores the offsets in row 3
mat4_translate_row(x, y, z) ==
    [mat_identity(4) EXCEPT ![0][3] = x, ![1][3] = y, ![2][3] = z]

mat4_translate(x, y, z) ==
    [mat_identity(4) EXCEPT ![3][0] = x, ![3][1] = y, ![3][2] = z]

mat4_scale(x, y, z) ==
    [c \in Idx(4) |-> [r \in Idx(4) |->
        CASE c = 0 /\ r = 0 -> x
          [] c = 1 /\ r = 1 -> y
          [] c = 2 /\ r = 2 -> z
          [] c = 3 /\ r = 3 -> 1
          [] OTHER -> 0]]

\* operator== on mat
mat_eq(a, b) == \A c \in DOMAIN a : \A r \in DOMAIN a[c] : ~(a[c][r] # b[c][r])

\* operator*(mat<T,C1,R1>, mat<T,C2,C1>) forwards to mat_mul, which only
\* accepts two mat<T,N,N>: for other shapes no overload is viable.
op_mul(T, A, B) ==
    IF Rows(B) # Cols(A)
    THEN [ok |-> FALSE, why |-> "no operator*", out |-> <<>>]
    ELSE IF Cols(A) = Rows(A) /\ Cols(B) = Rows(B) /\ Cols(A) = Cols(B)
         THEN [ok |-> TRUE, why |-> "", out |-> mat_mul(T, A, B)]
         ELSE [ok |-> FALSE, why |-> "no matching mat_mul", out |-> <<>>]

\* operator*(mat<T,N,N>, vec<T,N>)
op_mul_vec(T, M, V) == mat_mul_vec(T, M, V)

----------------------------------------------------------------------------
(* The dispatch gate as a state machine *)

NoOp == [name |-> "none"]

NoTest == [pc |-> "idle"]

NoArg == [kind |-> "none"]

\* machines the gate is exercised on: no SIMD, SSE2 only, AVX2
HwSamples ==
    { [edx1 |-> {},   ecx1 |-> {},       xcr0 |-> {},     ebx7 |-> {}],
      [edx1 |-> {26}, ecx1 |-> {},       xcr0 |-> {},     ebx7 |-> {}],
      [edx1 |-> {26}, ecx1 |-> {27, 28}, xcr0 |-> {1, 2}, ebx7 |-> {5}] }

GateVecs == { MkVec4(1, 2, 3, 1) }

GateMats == { mat4_translate(1, 2, 3) }

Init ==
    /\ build \in Builds
    /\ hw \in HwSamples
    /\ lvl = "uninit"
    /\ lastSet = "nil"
    /\ test = NoTest
    /\ tprior = "nil"
    /\ arg = NoArg
    /\ op = NoOp

\* the ceiling the history prescribes
Expected == IF lastSet = "nil" THEN runtime_level(build, hw) ELSE lastSet

\* a program exists and the thread is not inside the test case
Free == HeaderCompiles(build) /\ test.pc = "idle"

\* level l = simd::max_level();
ReadCeiling ==
    /\ Free
    /\ op' = [name |-> "max_level", m |-> max_level(lvl, build, hw)]
    /\ lvl' = max_level(lvl, build, hw)
    /\ UNCHANGED <<arg, build, hw, lastSet, test, tprior>>

\* simd::max_level() = l;
SetCeiling ==
    /\ Free
    /\ \E l \in Levels :
          /\ lvl' = l
          /\ lastSet' = l
    /\ UNCHANGED <<arg, build, hw, test, tprior, op>>

Vec4DotOn(a, b) ==
    LET m == max_level(lvl, build, hw)
        d == vec4_dot(build, m, a, b)
    IN  /\ lvl' = m
        /\ op' = [name |-> "vec4_dot", m |-> m, path |-> d.path,
                  A |-> a, B |-> b, out |-> d.out]
        /\ UNCHANGED <<arg, build, hw, lastSet, test, tprior>>

Mat4MulOn(a, b) ==
    LET m == max_level(lvl, build, hw)
        d == mat4_mul(build, m, a, b)
    IN  /\ lvl' = m
        /\ op' = [name |-> "mat4_mul", m |-> m, path |-> d.path,
                  A |-> a, B |-> b, out |-> d.out]
        /\ UNCHANGED <<arg, build, hw, lastSet, test, tprior>>

Mat4MulVecOn(a, v) ==
    LET m == max_level(lvl, build, hw)
        d == mat4_mul_vec(build, m, a, v)
    IN  /\ lvl' = m
        /\ op' = [name |-> "mat4_mul_vec", m |-> m, path |-> d.path,
                  A |-> a, B |-> v, out |-> d.out]
        /\ UNCHANGED <<arg, build, hw, lastSet, test, tprior>>

Vec4Dot    == Free /\ \E a \in GateVecs, b \in GateVecs : Vec4DotOn(a, b)
Mat4Mul    == Free /\ \E a \in GateMats, b \in GateMats : Mat4MulOn(a, b)
Mat4MulVec == Free /\ \E a \in GateMats, v \in GateVecs : Mat4MulVecOn(a, v)

\* TEST_CASE("mat4 SIMD path equals scalar path")
\* lm::mat4 R1 = lm::mat4_mul(A, B);
TestFirst ==
    /\ Free
    /\ \E a \in GateMats, b \in GateMats :
          LET m == max_level(lvl, build, hw)
          IN  /\ lvl' = m
              /\ test' = [pc |-> "first", A |-> a, B |-> b,
                          R1 |-> mat4_mul(build, m, a, b).out]
    /\ UNCHANGED <<arg, build, hw, lastSet, tprior, op>>

\* auto old = lm::simd::max_level();
TestSave ==
    /\ test.pc = "first"
    /\ test' = [pc |-> "saved", A |-> test.A, B |-> test.B, R1 |-> test.R1,
                old |-> max_level(lvl, build, hw)]
    /\ lvl' = max_level(lvl, build, hw)
    /\ tprior' = Expected
    /\ UNCHANGED <<arg, build, hw, lastSet, op>>

\* lm::simd::max_level() = lm::simd::level::none;
TestForce ==
    /\ test.pc = "saved"
    /\ lvl' = "none"
    /\ lastSet' = "none"
    /\ test' = [test EXCEPT !.pc = "forced"]
    /\ UNCHANGED <<arg, build, hw, tprior, op>>

\* lm::mat4 R2 = lm::mat4_mul(A, B);
TestSecond ==
    /\ test.pc = "forced"
    /\ LET m == max_level(lvl, build, hw)
       IN  /\ lvl' = m
           /\ test' = [pc |-> "second", A |-> test.A, B |-> test.B,
                       R1 |-> test.R1, old |-> test.old,
                       R2 |-> mat4_mul(build, m, test.A, test.B).out]
    /\ UNCHANGED <<arg, build, hw, lastSet, tprior, op>>

\* lm::simd::max_level() = old;
TestRestore ==
    /\ test.pc = "second"
    /\ lvl' = test.old
    /\ lastSet' = test.old
    /\ test' = [test EXCEPT !.pc = "restored"]
    /\ UNCHANGED <<arg, build, hw, tprior, op>>

\* the test case returns
TestEnd ==
    /\ test.pc = "restored"
    /\ test' = NoTest
    /\ tprior' = "nil"
    /\ UNCHANGED <<arg, build, hw, lvl, lastSet, op>>

Next ==
    \/ ReadCeiling
    \/ SetCeiling
    \/ Vec4Dot
    \/ Mat4Mul
    \/ Mat4MulVec
    \/ TestFirst
    \/ TestSave
    \/ TestForce
    \/ TestSecond
    \/ TestRestore
    \/ TestEnd

Spec == Init /\ [][Next]_vars

TypeOK ==
    /\ build \in Builds
    /\ hw \in HwStates
    /\ lvl \in Levels \cup {"uninit"}
    /\ lastSet \in Levels \cup {"nil"}

----------------------------------------------------------------------------
(* Dispatch: which implementation an operation may select *)

DispatchOps == {"vec4_dot", "mat4_mul", "mat4_mul_vec"}

\* the order of simd::level inside one architecture family
Family(l) == IF l = "neon" THEN "arm" ELSE IF l = "none" THEN "any" ELSE "x86"

Rank(l) == CASE l = "none" -> 0 [] l = "sse2" -> 1 [] l = "avx" -> 2
             [] l = "avx2" -> 3 [] l = "neon" -> 1

\* the accelerated implementations compiled into build b, by requirement
Available(b) ==
    (IF "__SSE2__" \in b THEN {"sse2"} ELSE {})
        \cup (IF "__ARM_NEON" \in b THEN {"neon"} ELSE {})

Qualifying(b, m) ==
    {k \in Available(b) : Family(k) = Family(m) /\ Rank(k) <= Rank(m)}

\* C4: a dispatch-sensitive operation runs an accelerated implementation
\* exactly when one is compiled in whose requirement is <= the ceiling in
\* the ceiling's own family, and the scalar implementation otherwise; so
\* ceiling none, and a ceiling of the other family, select scalar.
C4_DispatchSelects ==
    op.name \in DispatchOps =>
        /\ op.path \in {"scalar", "sse2", "neon"}
        /\ op.path # "scalar" => op.path \in Qualifying(build, op.m)
        /\ op.path = "scalar" => Qualifying(build, op.m) = {}
        /\ op.m = "none" => op.path = "scalar"
        /\ ("__SSE2__" \in build /\ op.m = "neon") => op.path = "scalar"

C4_Witness ==
    /\ op.name \in DispatchOps
    /\ op.m = "avx"
    /\ op.path = "sse2"

\* C5: the ceiling is the most recent override, or the detected level when
\* none was made: the static holds it, every read returns it, and the test's
\* save / force none / operate / restore leaves it as it was.
C5_StateOK ==
    /\ lvl # "uninit" => lvl = Expected
    /\ test.pc \in {"saved", "forced", "second", "restored"} => test.old = tprior
    /\ test.pc = "restored" => lvl = tprior

\* a step of ReadCeiling or of a dispatching operation: outside the test,
\* no override, and the operation recorded is one that read the ceiling
C5_ReadOK ==
    (/\ test.pc = "idle" /\ test'.pc = "idle"
     /\ lastSet' = lastSet
     /\ op'.name \in DispatchOps \cup {"max_level"})
        => op'.m = Expected

C5_CeilingIsLatestOverride == [](C5_StateOK) /\ [][C5_ReadOK]_vars

C5_Witness ==
    /\ test.pc = "restored"
    /\ tprior = "avx2"
    /\ lvl = "avx2"
    /\ test.R2 = mat_mul("float", test.A, test.B)

----------------------------------------------------------------------------
(* The capability detector on every machine *)

\* builds that define LMATH_FORCE_NO_SIMD ask for no detection at all
ForcedNoSimd == { {"__x86_64__"}, {"__aarch64__"} }

InitDetect ==
    /\ build \in Builds \ ForcedNoSimd
    /\ hw \in HwStates
    /\ lvl = "uninit"
    /\ lastSet = "nil"
    /\ test = NoTest
    /\ tprior = "nil"
    /\ arg = NoArg
    /\ op = NoOp

\* level l = simd::runtime_level();
Detect ==
    /\ HeaderCompiles(build)
    /\ op.name = "none"
    /\ op' = [name |-> "runtime_level", out |-> runtime_level(build, hw)]
    /\ UNCHANGED <<arg, build, hw, lvl, lastSet, test, tprior>>

NextDetect == Detect

SpecDetect == InitDetect /\ [][NextDetect]_vars

X86Build(b) == {"__x86_64__", "__i386__", "_M_IX86", "_M_X64"} \cap b # {}
ArmBuild(b) == ~X86Build(b) /\ {"__aarch64__", "__ARM_NEON"} \cap b # {}

\* the level the processor and the OS confirm
Confirmed(h) ==
    LET os_ymm == 27 \in h.ecx1 /\ {1, 2} \subseteq h.xcr0
    IN  IF 28 \in h.ecx1 /\ os_ymm
        THEN IF 5 \in h.ebx7 THEN "avx2" ELSE "avx"
        ELSE IF 26 \in h.edx1 THEN "sse2" ELSE "none"

\* the level the claim assigns to a call of runtime_level()
Claimed(b, h) ==
    IF X86Build(b) THEN Confirmed(h)
    ELSE IF ArmBuild(b) THEN "neon" ELSE "none"

\* C6 as stated: on x86 runtime_level() reports the highest level the
\* feature bits confirm (avx2, else avx, else sse2, else none); on ARM it
\* reports neon; on unrecognised targets none.
C6_ReportsHighestConfirmed ==
    op.name = "runtime_level" => op.out = Claimed(build, hw)

----------------------------------------------------------------------------
(* The three dispatching kernels on operands whose sums round *)

BigF    == 2^MantBits               \* above it not every integer is a float
HalfBig == 2^(MantBits \div 2)

KernelBuilds == { {"__x86_64__"}, {"__x86_64__", "__SSE2__"} }

Avx2Machine == [edx1 |-> {26}, ecx1 |-> {27, 28}, xcr0 |-> {1, 2}, ebx7 |-> {5}]

\* M[c][r] = u[(c + r) mod 4]
Circ(u) == [c \in Idx(4) |-> [r \in Idx(4) |-> u[(c + r) % 4]]]

KVecs  == [Idx(4) -> {0, 1, BigF}]
KVecsB == { MkVec4(1, 1, 1, 1), MkVec4(1, 2, 1, 1) }
KMats  == { Circ(u) : u \in [Idx(4) -> {0, 1, HalfBig}] }
KMatsB == { mat_identity(4), mat4_translate(1, 2, 3),
            Circ(MkVec4(HalfBig, 1, 1, 0)), Circ(MkVec4(1, 1, 1, 1)) }
KVecsM == { MkVec4(1, 2, 3, 1), MkVec4(HalfBig, 1, 1, 0),
            MkVec4(1, 1, HalfBig, 1), MkVec4(0, 0, 0, 1) }

InitKernel ==
    /\ build \in KernelBuilds
    /\ hw = Avx2Machine
    /\ lvl = "uninit"
    /\ lastSet = "nil"
    /\ test = NoTest
    /\ tprior = "nil"
    /\ \/ arg \in [kind : {"vec4_dot"}, A : KVecs, B : KVecsB]
       \/ arg \in [kind : {"mat4_mul"}, A : KMats, B : KMatsB]
       \/ arg \in [kind : {"mat4_mul_vec"}, A : KMats, B : KVecsM]
    /\ op = NoOp

KVec4Dot    == arg.kind = "vec4_dot" /\ Vec4DotOn(arg.A, arg.B)
KMat4Mul    == arg.kind = "mat4_mul" /\ Mat4MulOn(arg.A, arg.B)
KMat4MulVec == arg.kind = "mat4_mul_vec" /\ Mat4MulVecOn(arg.A, arg.B)

NextKernel ==
    \/ SetCeiling
    \/ KVec4Dot
    \/ KMat4Mul
    \/ KMat4MulVec

SpecKernel == InitKernel /\ [][NextKernel]_vars

\* C1 as stated: mat4_mul returns, under every ceiling, exactly what the
\* generic mat_mul returns (ascending k, one running sum).
C1_Mat4MulPathsAgree ==
    op.name = "mat4_mul" => op.out = mat_mul("float", op.A, op.B)

\* C2 as stated: vec4_dot returns, under every ceiling, exactly what the
\* scalar vec_dot returns, the sum ((p0 + p1) + p2) + p3.
C2_Vec4DotPathsAgree ==
    op.name = "vec4_dot" =>
        /\ op.out = vec_dot("float", op.A, op.B)
        /\ op.out = fadd(fadd(fadd(fmul(op.A[0], op.B[0]), fmul(op.A[1], op.B[1])),
                              fmul(op.A[2], op.B[2])),
                         fmul(op.A[3], op.B[3]))

\* C3 as stated: mat4_mul_vec returns, under every ceiling, exactly what the
\* generic mat_mul_vec returns (ascending c, one running sum).
C3_Mat4MulVecPathsAgree ==
    op.name = "mat4_mul_vec" => op.out = mat_mul_vec("float", op.A, op.B)

----------------------------------------------------------------------------
(* Matrix algebra: operator*, identity, associativity, translation *)

Coord == (-MaxCoord) .. MaxCoord

Dims == 2 .. MaxDim

GenMat(C, R, s, t) ==
    [c \in Idx(C) |-> [r \in Idx(R) |-> s * (c + 1) + t * (2 * r - 1) + c * r]]

GenVec(N, s, t) == [i \in Idx(N) |-> s * (i + 1) + t]

\* floats above 2^24: only even integers are representable there
BigMat(N) == [c \in Idx(N) |-> [r \in Idx(N) |-> BigF + 2 * (c + N * r)]]

\* a float matrix whose triple products need more than 24 bits
WideMat(N) == [c \in Idx(N) |-> [r \in Idx(N) |-> 300 + 17 * c - 29 * r + c * r]]

ElemTypes == {"int", "float"}

SqMats(T, N) ==
    {GenMat(N, N, s, t) : s \in Coord, t \in {-1, 2}}
        \cup (IF T = "float" THEN {BigMat(N)} ELSE {})

AssocMats(T, N) ==
    {GenMat(N, N, s, 1) : s \in Coord}
        \cup (IF T = "float" THEN {WideMat(N)} ELSE {})

\* which function multiplies: the generic one for every type and size, the
\* dispatching one for mat4 = mat<float,4,4>
Vias(T, N, generic, simd) ==
    {generic} \cup (IF T = "float" /\ N = 4 THEN {simd} ELSE {})

InitAlgebra ==
    /\ build \in KernelBuilds
    /\ hw = Avx2Machine
    /\ lvl \in Levels \cup {"uninit"}
    /\ lastSet = IF lvl = "uninit" THEN "nil" ELSE lvl
    /\ test = NoTest
    /\ tprior = "nil"
    /\ op = NoOp
    /\ \/ \E c1 \in Dims, r1 \in Dims, c2 \in Dims, r2 \in Dims, s \in Coord :
            arg = [kind |-> "op_mul", T |-> "int",
                   A |-> GenMat(c1, r1, s, 1), B |-> GenMat(c2, r2, 1, -1)]
       \/ \E T \in ElemTypes, N \in Dims :
            arg \in [kind : {"mul_identity"}, T : {T}, N : {N}, A : SqMats(T, N),
                     side : {"right", "left"},
                     via : Vias(T, N, "operator*", "mat4_mul")]
       \/ \E T \in ElemTypes, N \in Dims :
            arg \in [kind : {"identity_vec"}, T : {T}, N : {N},
                     V : {GenVec(N, s, 1) : s \in Coord}
                            \cup (IF T = "float" THEN {GenVec(N, 2, BigF)} ELSE {}),
                     via : Vias(T, N, "operator*", "mat4_mul_vec")]
       \/ \E T \in ElemTypes, N \in Dims :
            arg \in [kind : {"assoc"}, T : {T}, N : {N},
                     A : AssocMats(T, N), B : AssocMats(T, N), C : AssocMats(T, N),
                     via : Vias(T, N, "mat_mul", "mat4_mul")]
       \/ arg \in [kind : {"translate"}, x : Coord, y : {2, BigF}, z : {3, -1},
                   V : {MkVec4(px, py, pz, w) : px \in Coord, py \in {2, 1 - BigF},
                                               pz \in {3, BigF}, w \in {0, 1}},
                   via : {"operator*", "mat4_mul_vec"}]

\* auto R = A * B;
OpMul ==
    /\ arg.kind = "op_mul"
    /\ op' = [name |-> "operator*", res |-> op_mul(arg.T, arg.A, arg.B)]
    /\ UNCHANGED <<arg, build, hw, lvl, lastSet, test, tprior>>

\* the product of two square matrices through the function arg.via names
SqMul(via, T, m, A, B) ==
    IF via = "mat4_mul" THEN mat4_mul(build, m, A, B)
    ELSE IF via = "mat_mul" THEN [path |-> "generic", out |-> mat_mul(T, A, B)]
    ELSE [path |-> "generic", out |-> op_mul(T, A, B).out]

SqMulVec(via, T, m, M, V) ==
    IF via = "mat4_mul_vec" THEN mat4_mul_vec(build, m, M, V)
    ELSE [path |-> "generic", out |-> op_mul_vec(T, M, V)]

\* only the dispatching functions call max_level()
LvlAfter(via) ==
    IF via \in DispatchOps THEN max_level(lvl, build, hw) ELSE lvl

\* A * mat_identity<T,N>()  and  mat_identity<T,N>() * A
MulIdentity ==
    /\ arg.kind = "mul_identity"
    /\ LET m == max_level(lvl, build, hw)
           I == mat_identity(arg.N)
           d == IF arg.side = "right" THEN SqMul(arg.via, arg.T, m, arg.A, I)
                                      ELSE SqMul(arg.via, arg.T, m, I, arg.A)
       IN  op' = [name |-> "mul_identity", I |-> I, path |-> d.path, out |-> d.out]
    /\ lvl' = LvlAfter(arg.via)
    /\ UNCHANGED <<arg, build, hw, lastSet, test, tprior>>

\* mat_identity<T,N>() * v
IdentityVec ==
    /\ arg.kind = "identity_vec"
    /\ LET m == max_level(lvl, build, hw)
           d == SqMulVec(arg.via, arg.T, m, mat_identity(arg.N), arg.V)
       IN  op' = [name |-> "identity_vec", path |-> d.path, out |-> d.out]
    /\ lvl' = LvlAfter(arg.via)
    /\ UNCHANGED <<arg, build, hw, lastSet, test, tprior>>

\* (A * B) * C  and  A * (B * C)
Assoc ==
    /\ arg.kind = "assoc"
    /\ LET m  == max_level(lvl, build, hw)
           AB == SqMul(arg.via, arg.T, m, arg.A, arg.B)
           BC == SqMul(arg.via, arg.T, m, arg.B, arg.C)
       IN  op' = [name |-> "assoc", path |-> AB.path,
                  L |-> SqMul(arg.via, arg.T, m, AB.out, arg.C).out,
                  R |-> SqMul(arg.via, arg.T, m, arg.A, BC.out).out]
    /\ lvl' = LvlAfter(arg.via)
    /\ UNCHANGED <<arg, build, hw, lastSet, test, tprior>>

\* mat4_translate(x, y, z) * V
TranslateVec ==
    /\ arg.kind = "translate"
    /\ LET m == max_level(lvl, build, hw)
           M == mat4_translate(arg.x, arg.y, arg.z)
           d == SqMulVec(arg.via, "float", m, M, arg.V)
       IN  op' = [name |-> "translate", M |-> M, path |-> d.path, out |-> d.out]
    /\ lvl' = LvlAfter(arg.via)
    /\ UNCHANGED <<arg, build, hw, lastSet, test, tprior>>

NextAlgebra ==
    \/ OpMul
    \/ MulIdentity
    \/ IdentityVec
    \/ Assoc
    \/ TranslateVec

SpecAlgebra == InitAlgebra /\ [][NextAlgebra]_vars

----------------------------------------------------------------------------
(* What the algebra must satisfy *)

RECURSIVE ExactSum(_, _, _)
\* the sum of f[k] over k in 0..n-1, in unbounded integer arithmetic
ExactSum(f, n, k) == IF k >= n THEN 0 ELSE f[k] + ExactSum(f, n, k + 1)

\* element (c, r) of the mathematical product A.B
ExactElem(A, B, c, r) ==
    ExactSum([k \in Idx(Cols(A)) |-> A[k][r] * B[c][k]], Cols(A), 0)

\* C7: multiplying a C1-column R1-row matrix by a C2-column C1-row matrix is
\* defined, the result has C2 columns and R1 rows and element (c, r) is
\* sum_k A[k][r]*B[c][k]; a right operand whose rows differ from the left
\* operand's columns has no operator*.
C7_NonSquareMultiply ==
    op.name = "operator*" =>
        IF Rows(arg.B) = Cols(arg.A)
        THEN /\ op.res.ok
             /\ Cols(op.res.out) = Cols(arg.B)
             /\ Rows(op.res.out) = Rows(arg.A)
             /\ \A c \in Idx(Cols(arg.B)) : \A r \in Idx(Rows(arg.A)) :
                    op.res.out[c][r] = ExactElem(arg.A, arg.B, c, r)
        ELSE ~op.res.ok

IsIdentity(I, N) ==
    /\ DOMAIN I = Idx(N)
    /\ \A i \in Idx(N) : DOMAIN I[i] = Idx(N)
    /\ \A i \in Idx(N) : \A j \in Idx(N) : I[i][j] = IF i = j THEN 1 ELSE 0

\* C8: mat_identity has ones on the diagonal and zeros elsewhere; A * I and
\* I * A compare equal to A and I * v compares equal to v, through operator*
\* for int and float and through mat4_mul / mat4_mul_vec under every ceiling.
C8_IdentityIsNeutral ==
    /\ op.name = "mul_identity" =>
          /\ IsIdentity(op.I, arg.N)
          /\ Cols(op.out) = arg.N
          /\ mat_eq(op.out, arg.A)
    /\ op.name = "identity_vec" =>
          /\ VLen(op.out) = arg.N
          /\ vec_eq(op.out, arg.V)

C8_Witness ==
    /\ op.name = "mul_identity"
    /\ arg.N = 4
    /\ arg.via = "mat4_mul"
    /\ arg.side = "left"
    /\ op.path = "sse2"
    /\ arg.A = BigMat(4)
    /\ mat_eq(op.out, arg.A)

\* the 2^-24 relative error of one float rounding, times the 32 roundings of
\* a 4x4 triple product, as a divisor of the magnitude sum
TolDiv == 2 ^ (MantBits - 5)

AbsMat(A) == [c \in DOMAIN A |-> [r \in DOMAIN A[c] |-> Abs(A[c][r])]]

\* sum over k, j of |A[k][r]| |B[j][k]| |C[c][j]|
Magnitude(A, B, C, c, r) ==
    ExactElem(mat_mul("int", AbsMat(A), AbsMat(B)), AbsMat(C), c, r)

\* C9: (A*B)*C and A*(B*C) are equal element for element on int matrices and
\* differ by at most a floating tolerance on float matrices, through mat_mul
\* and through mat4_mul under every ceiling.
C9_Associative ==
    op.name = "assoc" =>
        \A c \in Idx(arg.N) : \A r \in Idx(arg.N) :
            IF arg.T = "int"
            THEN op.L[c][r] = op.R[c][r]
            ELSE Abs(op.L[c][r] - op.R[c][r])
                    <= Magnitude(arg.A, arg.B, arg.C, c, r) \div TolDiv

C9_Witness ==
    /\ op.name = "assoc"
    /\ arg.T = "float"
    /\ arg.via = "mat4_mul"
    /\ op.path = "sse2"
    /\ op.L # op.R

\* C10: mat4_translate(x, y, z) applied to a vec4 gives, row by row, the
\* correctly rounded sum over col of M[col][row]*V[col]: a point (w = 1)
\* moves by (x, y, z) and keeps w, a direction (w = 0) is unchanged; the same
\* through operator* and through mat4_mul_vec under every ceiling.
C10_TranslateApplies ==
    op.name = "translate" =>
        LET V == arg.V
        IN  /\ \A r \in Idx(4) :
                  op.out[r] =
                      RoundF(ExactSum([c \in Idx(4) |-> op.M[c][r] * V[c]], 4, 0))
            /\ V[3] = 1 =>
                  op.out = MkVec4(fadd(V[0], arg.x), fadd(V[1], arg.y),
                                  fadd(V[2], arg.z), 1)
            /\ V[3] = 0 => op.out = V

C10_Witness ==
    /\ op.name = "translate"
    /\ arg.via = "mat4_mul_vec"
    /\ op.path = "sse2"
    /\ <<arg.x, arg.y, arg.z>> = <<1, 2, 3>>
    /\ arg.V = MkVec4(1, 2, 3, 1)
    /\ op.out = MkVec4(2, 4, 6, 1)

----------------------------------------------------------------------------
(* Rotations, with the portable sinf / cosf *)

\* a vector / matrix of integer literals as elements of type T
VecOf(T, V) == [i \in DOMAIN V |-> Lit(T, V[i])]

MatOf(T, M) == [c \in DOMAIN M |-> [r \in DOMAIN M[c] |-> Lit(T, M[c][r])]]

\* lm::mat4_rotate_x / _y / _z
\* the rotation matrices of mat.hpp, from s = sinf(a) and c = cosf(a)
RotX(s, c) ==
    [MatOf("f32", mat_identity(4)) EXCEPT ![1][1] = c, ![2][1] = f32_neg(s), ![1][2] = s, ![2][2] = c]

RotY(s, c) ==
    [MatOf("f32", mat_identity(4)) EXCEPT ![0][0] = c, ![2][0] = s, ![0][2] = f32_neg(s), ![2][2] = c]

RotZ(s, c) ==
    [MatOf("f32", mat_identity(4)) EXCEPT ![0][0] = c, ![1][0] = f32_neg(s), ![0][1] = s, ![1][1] = c]

mat4_rotate_x(a) == RotX(sinf(a), cosf(a))

mat4_rotate_y(a) == RotY(sinf(a), cosf(a))

mat4_rotate_z(a) == RotZ(sinf(a), cosf(a))

\* the matrices R of lmath::mat4<float>::rotate_x / _y / _z
LmathRotX(s, c) ==
    [MatOf("f32", mat_identity(4))
        EXCEPT ![1] = [MatOf("f32", mat_identity(4))[1] EXCEPT ![1] = c, ![2] = s],
               ![2] = [MatOf("f32", mat_identity(4))[2] EXCEPT ![1] = f32_neg(s), ![2] = c]]

LmathRotY(s, c) ==
    [MatOf("f32", mat_identity(4))
        EXCEPT ![0] = [MatOf("f32", mat_identity(4))[0] EXCEPT ![0] = c, ![2] = f32_neg(s)],
               ![2] = [MatOf("f32", mat_identity(4))[2] EXCEPT ![0] = s, ![2] = c]]

LmathRotZ(s, c) ==
    [MatOf("f32", mat_identity(4))
        EXCEPT ![0] = [MatOf("f32", mat_identity(4))[0] EXCEPT ![0] = c, ![1] = s],
               ![1] = [MatOf("f32", mat_identity(4))[1] EXCEPT ![0] = f32_neg(s), ![1] = c]]

\* lmath::mat4<float>::rotate_x / _y / _z: builds R, returns (*this) * R
lmath_rotate_x(this, a) ==
    CHOOSE M \in {mat_mul("f32", this, R) : R \in {LmathRotX(sinf(a), cosf(a))}} : TRUE

lmath_rotate_y(this, a) ==
    CHOOSE M \in {mat_mul("f32", this, R) : R \in {LmathRotY(sinf(a), cosf(a))}} : TRUE

lmath_rotate_z(this, a) ==
    CHOOSE M \in {mat_mul("f32", this, R) : R \in {LmathRotZ(sinf(a), cosf(a))}} : TRUE

RotationOf(lib, axis, a) ==
    CASE lib = "lm" /\ axis = "x"    -> mat4_rotate_x(a)
      [] lib = "lm" /\ axis = "y"    -> mat4_rotate_y(a)
      [] lib = "lm" /\ axis = "z"    -> mat4_rotate_z(a)
      [] lib = "lmath" /\ axis = "x" -> lmath_rotate_x(MatOf("f32", mat_identity(4)), a)
      [] lib = "lmath" /\ axis = "y" -> lmath_rotate_y(MatOf("f32", mat_identity(4)), a)
      [] OTHER                       -> lmath_rotate_z(MatOf("f32", mat_identity(4)), a)

PI_QUARTER == f32_mul(PI_HALF, F32Half)

Angles == {F32Zero, PI_QUARTER, PI_HALF, PI}

RotVecs == {MkVec4(0, 1, 0, 1), MkVec4(1, 0, 0, 1), MkVec4(0, 0, 1, 1),
            MkVec4(1, 2, 3, 1)}

RotateArgs ==
    [kind : {"rotate"}, lib : {"lm", "lmath"}, axis : {"x", "y", "z"},
     angle : Angles, V : {VecOf("f32", v) : v \in RotVecs}]

\* rot = rotate_<axis>(angle);  r = rot * v0;
Rotate ==
    /\ arg.kind = "rotate"
    /\ \E R \in {RotationOf(arg.lib, arg.axis, arg.angle)} :
           op' = [name |-> "rotate", R |-> R, out |-> op_mul_vec("f32", R, arg.V)]
    /\ UNCHANGED <<arg, build, hw, lvl, lastSet, test, tprior>>

----------------------------------------------------------------------------
(* Length, normalisation, cross product *)

MkVec3(x, y, z) == [i \in Idx(3) |-> CASE i = 0 -> x [] i = 1 -> y [] OTHER -> z]

\* vec<T,N>{}
vec_zero(T, N) == [i \in Idx(N) |-> Lit(T, 0)]

\* operator- (unary) on vec
vec_neg(T, V) == [i \in DOMAIN V |-> Neg(T, V[i])]

\* vec3_cross whose third component has the operands swapped
vec3_cross_left(T, A, B) ==
    MkVec3(Sub(T, Mul(T, A[1], B[2]), Mul(T, A[2], B[1])),
           Sub(T, Mul(T, A[2], B[0]), Mul(T, A[0], B[2])),
           Sub(T, Mul(T, A[1], B[0]), Mul(T, A[0], B[1])))

vec3_cross(T, A, B) ==
    MkVec3(Sub(T, Mul(T, A[1], B[2]), Mul(T, A[2], B[1])),
           Sub(T, Mul(T, A[2], B[0]), Mul(T, A[0], B[2])),
           Sub(T, Mul(T, A[0], B[1]), Mul(T, A[1], B[0])))

vec_len(V, pun) == sqrtf(vec_dot("f32", V, V), pun)

\* vec_norm: what it returns, and the length it divided 1 by (if it did)
vec_norm_of(V, LEN) ==
    IF f32_eq(LEN, F32Zero)
    THEN [len |-> LEN, divided |-> FALSE, out |-> vec_zero("f32", VLen(V))]
    ELSE [len |-> LEN, divided |-> TRUE,
          out |-> vec_scale("f32", V, f32_div(F32One, LEN))]

vec_norm_steps(V, pun) ==
    CHOOSE r \in {vec_norm_of(V, LEN) : LEN \in {vec_len(V, pun)}} : TRUE

vec_norm(V, pun) == vec_norm_steps(V, pun).out

\* lmath::vec_base::normalized(), built with LINMATH_FREESTANDING
lmath_normalized_of(V, len) ==
    IF f32_lt(F32Zero, len)
    THEN [len |-> len, divided |-> TRUE,
          out |-> vec_scale("f32", V, f32_div(F32One, len))]
    ELSE [len |-> len, divided |-> FALSE, out |-> vec_zero("f32", VLen(V))]

lmath_normalized_steps(V, pun) ==
    CHOOSE r \in {lmath_normalized_of(V, len) :
                      len \in {sqrtf(vec_dot("f32", V, V), pun)}} : TRUE

lmath_normalized(V, pun) == lmath_normalized_steps(V, pun).out

----------------------------------------------------------------------------
(* quat_of<T>: [v |-> the xyz vector, w |-> the scalar] *)

Quat(v, w) == [v |-> v, w |-> w]

MkQuat(x, y, z, w) == Quat(MkVec3(x, y, z), w)

quat_identity(T) == Quat(vec_zero(T, 3), Lit(T, 1))

\* quat_of<T>{}
quat_zero(T) == Quat(vec_zero(T, 3), Lit(T, 0))

quat_scale(T, Q, s) == Quat(vec_scale(T, Q.v, s), Mul(T, Q.w, s))

quat_dot(T, A, B) == Add(T, vec_dot(T, A.v, B.v), Mul(T, A.w, B.w))

quat_len(Q, pun) == sqrtf(quat_dot("f32", Q, Q), pun)

\* quat_norm that falls back to the identity
quat_norm_identity(Q, LEN) ==
    IF f32_eq(LEN, F32Zero)
    THEN [len |-> LEN, divided |-> FALSE, out |-> quat_identity("f32")]
    ELSE [len |-> LEN, divided |-> TRUE,
          out |-> quat_scale("f32", Q, f32_div(F32One, LEN))]

\* quat_norm on the length LEN = quat_len(Q): what it returns, and whether
\* it divided 1 by the length
quat_norm_of(Q, LEN) ==
    IF f32_eq(LEN, F32Zero)
    THEN [len |-> LEN, divided |-> FALSE, out |-> quat_zero("f32")]
    ELSE [len |-> LEN, divided |-> TRUE,
          out |-> quat_scale("f32", Q, f32_div(F32One, LEN))]

quat_norm_steps(Q, pun) ==
    CHOOSE r \in {quat_norm_of(Q, LEN) : LEN \in {quat_len(Q, pun)}} : TRUE

quat_norm(Q, pun) == quat_norm_steps(Q, pun).out

\* quat_conj that negates the scalar part as well
quat_conj_all(T, Q) == Quat(vec_neg(T, Q.v), Neg(T, Q.w))

quat_conj(T, Q) == Quat(vec_neg(T, Q.v), Q.w)

\* quat_mul with the operands of the cross product swapped
quat_mul_swapped(T, P, Q) ==
    Quat(vec_add(T, vec_add(T, vec3_cross(T, Q.v, P.v), vec_scale(T, P.v, Q.w)),
                    vec_scale(T, Q.v, P.w)),
         Sub(T, Mul(T, P.w, Q.w), vec_dot(T, P.v, Q.v)))

quat_mul(T, P, Q) ==
    Quat(vec_add(T, vec_add(T, vec3_cross(T, P.v, Q.v), vec_scale(T, P.v, Q.w)),
                    vec_scale(T, Q.v, P.w)),
         Sub(T, Mul(T, P.w, Q.w), vec_dot(T, P.v, Q.v)))

\* quat_mul_vec3 without the factor 2
quat_mul_vec3_single(T, Q, V) ==
    LET C == vec3_cross(T, Q.v, V)
    IN  vec_add(T, vec_add(T, V, vec_scale(T, C, Q.w)), vec3_cross(T, Q.v, C))

quat_mul_vec3(T, Q, V) ==
    LET C == vec_scale(T, vec3_cross(T, Q.v, V), Lit(T, 2))
    IN  vec_add(T, vec_add(T, V, vec_scale(T, C, Q.w)), vec3_cross(T, Q.v, C))

\* operator== on quat
quat_eq(A, B) == vec_eq(A.v, B.v) /\ A.w = B.w

----------------------------------------------------------------------------
(* Quaternion <-> mat4 *)

\* mat4_from_quat that stores the 3x3 block transposed (row-major)
mat4_from_quat_rowmajor(T, Q) ==
    LET A  == Q.w
        B  == Q.v[0]
        C  == Q.v[1]
        D  == Q.v[2]
        A2 == Mul(T, A, A)
        B2 == Mul(T, B, B)
        C2 == Mul(T, C, C)
        D2 == Mul(T, D, D)
        two(x) == Mul(T, Lit(T, 2), x)
        Z  == MatOf(T, [c \in Idx(4) |-> [r \in Idx(4) |-> 0]])
    IN  [Z EXCEPT
          ![0][0] = Sub(T, Sub(T, Add(T, A2, B2), C2), D2),
          ![1][0] = two(Add(T, Mul(T, B, C), Mul(T, A, D))),
          ![2][0] = two(Sub(T, Mul(T, B, D), Mul(T, A, C))),
          ![0][1] = two(Sub(T, Mul(T, B, C), Mul(T, A, D))),
          ![1][1] = Sub(T, Add(T, Sub(T, A2, B2), C2), D2),
          ![2][1] = two(Add(T, Mul(T, C, D), Mul(T, A, B))),
          ![0][2] = two(Add(T, Mul(T, B, D), Mul(T, A, C))),
          ![1][2] = two(Sub(T, Mul(T, C, D), Mul(T, A, B))),
          ![2][2] = Add(T, Sub(T, Sub(T, A2, B2), C2), D2),
          ![3][3] = Lit(T, 1)]

mat4_from_quat(T, Q) ==
    LET A  == Q.w
        B  == Q.v[0]
        C  == Q.v[1]
        D  == Q.v[2]
        A2 == Mul(T, A, A)
        B2 == Mul(T, B, B)
        C2 == Mul(T, C, C)
        D2 == Mul(T, D, D)
        two(x) == Mul(T, Lit(T, 2), x)
        Z  == MatOf(T, [c \in Idx(4) |-> [r \in Idx(4) |-> 0]])
    IN  [Z EXCEPT
          ![0][0] = Sub(T, Sub(T, Add(T, A2, B2), C2), D2),
          ![0][1] = two(Add(T, Mul(T, B, C), Mul(T, A, D))),
          ![0][2] = two(Sub(T, Mul(T, B, D), Mul(T, A, C))),
          ![1][0] = two(Sub(T, Mul(T, B, C), Mul(T, A, D))),
          ![1][1] = Sub(T, Add(T, Sub(T, A2, B2), C2), D2),
          ![1][2] = two(Add(T, Mul(T, C, D), Mul(T, A, B))),
          ![2][0] = two(Add(T, Mul(T, B, D), Mul(T, A, C))),
          ![2][1] = two(Sub(T, Mul(T, C, D), Mul(T, A, B))),
          ![2][2] = Add(T, Sub(T, Sub(T, A2, B2), C2), D2),
          ![3][3] = Lit(T, 1)]

PivotThreshold == F32(0, 897988541)      \* T(1e-6) = 0x358637BD

\* one pass of the pivot loop: st = <<r, p>>
PivotStep(M, i, st) ==
    IF f32_lt(st[1], M[i][i])
    THEN <<M[i][i], <<i, (i + 1) % 3, (i + 2) % 3>>>>
    ELSE st

\* the state after the pivot loop
Pivot(M) ==
    PivotStep(M, 2, PivotStep(M, 1, PivotStep(M, 0, <<F32Zero, <<0, 1, 2>>>>)))

\* the argument of sqrtf in quat_from_mat4
Radicand(M) ==
    LET p == Pivot(M)[2]
    IN  f32_sub(f32_sub(f32_add(F32One, M[p[1]][p[1]]), M[p[2]][p[2]]),
                M[p[3]][p[3]])

\* quat_from_mat4 after the pivot p is chosen and r = sqrtf(radicand) is taken
quat_from_pivot(M, p, r, inv) ==
    IF f32_lt(r, PivotThreshold)
    THEN MkQuat(F32One, F32Zero, F32Zero, F32Zero)
    ELSE MkQuat(f32_mul(r, F32Half),
                f32_mul(f32_sub(M[p[1]][p[2]], M[p[2]][p[1]]), inv),
                f32_mul(f32_sub(M[p[3]][p[1]], M[p[1]][p[3]]), inv),
                f32_mul(f32_sub(M[p[3]][p[2]], M[p[2]][p[3]]), inv))

quat_from_mat4(M, pun) ==
    CHOOSE q \in {quat_from_pivot(M, p, r, f32_div(F32One, f32_mul(f32_of_int(2), r))) :
                      p \in {Pivot(M)[2]}, r \in {sqrtf(Radicand(M), pun)}} : TRUE

----------------------------------------------------------------------------
(* Numerics: rotations, normalisation, quaternion from matrix *)

\* powers of two as floats: 2^-100, 2^-35, 2^100, and the largest float
Tiny   == F32(0, 27 * Hidden)
Small  == F32(0, 92 * Hidden)
Huge   == F32(0, 227 * Hidden)
FltMax == F32(0, InfBits - 1)

NormElems ==
    {F32Zero, F32(1, 0), F32One, f32_of_int(3), f32_of_int(-4),
     Tiny, Small, Huge, FltMax}

NormVecs ==
    [Idx(2) -> NormElems] \cup [Idx(3) -> NormElems]
        \cup [Idx(4) -> {F32Zero, F32One, Small, Huge}]

QuatElems == {F32Zero, F32One, f32_of_int(-2), Tiny, Huge}

NumQuats == {MkQuat(x, y, z, w) : x \in QuatElems, y \in QuatElems,
                                  z \in QuatElems, w \in QuatElems}

DiagMat(d0, d1, d2) ==
    [MatOf("f32", mat_identity(4)) EXCEPT ![0][0] = d0, ![1][1] = d1, ![2][2] = d2]

DiagElems == {f32_of_int(-3), f32_of_int(-2), f32_of_int(-1), F32Zero, F32Half,
              F32One, f32_of_int(2)}

FromMats ==
    {DiagMat(d0, d1, d2) : d0 \in DiagElems, d1 \in DiagElems, d2 \in DiagElems}
        \cup {RotationOf("lm", ax, a) : ax \in {"x", "y", "z"}, a \in Angles}

InitNum ==
    /\ build = {"__x86_64__", "__SSE2__"}
    /\ hw = Avx2Machine
    /\ lvl = "uninit"
    /\ lastSet = "nil"
    /\ test = NoTest
    /\ tprior = "nil"
    /\ op = NoOp
    /\ \/ arg \in RotateArgs
       \/ arg \in [kind : {"norm"}, lib : {"lm", "lmath"}, pun : PunReads,
                   V : NormVecs]
       \/ arg \in [kind : {"quat_norm"}, pun : PunReads, Q : NumQuats]
       \/ arg \in [kind : {"from_mat4"}, pun : PunReads, M : FromMats]

\* n = vec_norm(v);   n = v.normalized();
Normalize ==
    /\ arg.kind = "norm"
    /\ \E d \in {IF arg.lib = "lm" THEN vec_norm_steps(arg.V, arg.pun)
                                   ELSE lmath_normalized_steps(arg.V, arg.pun)} :
           op' = [name |-> "norm", dot |-> vec_dot("f32", arg.V, arg.V),
                  len |-> d.len, divided |-> d.divided, out |-> d.out]
    /\ UNCHANGED <<arg, build, hw, lvl, lastSet, test, tprior>>

\* n = quat_norm(q);
QuatNormalize ==
    /\ arg.kind = "quat_norm"
    /\ \E d \in {quat_norm_steps(arg.Q, arg.pun)} :
           op' = [name |-> "quat_norm", len |-> d.len, divided |-> d.divided,
                  out |-> d.out]
    /\ UNCHANGED <<arg, build, hw, lvl, lastSet, test, tprior>>

\* q = quat_from_mat4(M);
FromMat4 ==
    /\ arg.kind = "from_mat4"
    /\ op' = [name |-> "from_mat4", p |-> Pivot(arg.M)[2],
              out |-> quat_from_mat4(arg.M, arg.pun)]
    /\ UNCHANGED <<arg, build, hw, lvl, lastSet, test, tprior>>

NextNum ==
    \/ Rotate
    \/ Normalize
    \/ QuatNormalize
    \/ FromMat4

SpecNum == InitNum /\ [][NextNum]_vars

----------------------------------------------------------------------------
(* What the numerics must satisfy *)

Tol5 == F32(0, 925353388)            \* 1e-5f = 0x3727C5AC

\* |x - y| <= tol
Within(x, y, tol) == f32_le(f32_abs(f32_sub(x, y)), tol)

VecWithin(A, B, tol) == \A i \in DOMAIN A : Within(A[i], B[i], tol)

\* C11: with the portable sinf / cosf the rotation by pi/2 about X takes
\* (0,1,0,1) to (0,0,1,1), about Y takes (1,0,0,1) to (0,0,-1,1) and about Z
\* takes (1,0,0,1) to (0,1,0,1), every component within 1e-5; lmath's
\* rotate_x/y/z return this * R.
C11_QuarterTurns ==
    (op.name = "rotate" /\ arg.angle = PI_HALF) =>
        /\ (arg.axis = "x" /\ arg.V = VecOf("f32", MkVec4(0, 1, 0, 1)))
              => VecWithin(op.out, VecOf("f32", MkVec4(0, 0, 1, 1)), Tol5)
        /\ (arg.axis = "y" /\ arg.V = VecOf("f32", MkVec4(1, 0, 0, 1)))
              => VecWithin(op.out, VecOf("f32", MkVec4(0, 0, -1, 1)), Tol5)
        /\ (arg.axis = "z" /\ arg.V = VecOf("f32", MkVec4(1, 0, 0, 1)))
              => VecWithin(op.out, VecOf("f32", MkVec4(0, 1, 0, 1)), Tol5)
        /\ arg.lib = "lmath"
              => op.R = mat_mul("f32", MatOf("f32", mat_identity(4)),
                                RotationOf("lm", arg.axis, arg.angle))

C14_QuatNormZeroFallback ==
    op.name = "quat_norm" =>
        /\ op.len = quat_len(arg.Q, arg.pun)
        /\ f32_eq(op.len, F32Zero) =>
              /\ op.out = MkQuat(F32Zero, F32Zero, F32Zero, F32Zero)
              /\ op.out # quat_identity("f32")
        /\ ~f32_eq(op.len, F32Zero) =>
              op.out = quat_scale("f32", arg.Q, f32_div(F32One, op.len))
        /\ op.divided => ~f32_eq(op.len, F32Zero)

C14_Witness ==
    /\ op.name = "quat_norm"
    /\ arg.Q.w = Tiny
    /\ f32_eq(op.len, F32Zero)
    /\ op.out = quat_zero("f32")

\* C15: quat_from_mat4 returns the identity quaternion (v = 0, w = 1) when
\* the pivot's radicand is below the 1e-6 threshold, as for the identity
\* matrix, and no component of it is NaN or Inf.
C15_UnstablePivotGivesIdentity ==
    (op.name = "from_mat4" /\ f32_lt(Radicand(arg.M), PivotThreshold)) =>
        /\ op.out = quat_identity("f32")
        /\ IsFinite(op.out.w)
        /\ \A i \in Idx(3) : IsFinite(op.out.v[i])

----------------------------------------------------------------------------
(* Vector and quaternion algebra *)

\* what a signed overflow does: the sum wraps around (two's complement), or
\* the evaluation yields no value (a sanitizer trap, or the rejection of a
\* constant expression)
SignedOverflow == {"wraps", "traps"}

vec_add_wrap(A, B) == [i \in DOMAIN A |-> int_add_wrap(A[i], B[i])]

vec_sub_wrap(A, B) == [i \in DOMAIN A |-> int_sub_wrap(A[i], B[i])]

SumOverflows(A, B) == \E i \in DOMAIN A : AddOverflows(A[i], B[i])

IntElems == Coord \cup {IntMax, IntMin}

UnsignedElems == {u32_of_int(n) : n \in Coord} \cup {U32(Half \div 2, 0)}

\* an N-vector (x, ..., x, y)
SpreadVec(N, x, y) == [i \in Idx(N) |-> IF i = N - 1 THEN y ELSE x]

VecDims == 2 .. 4

AddSubArgs(T, E, one) ==
    {[kind |-> "add_sub", T |-> T, A |-> SpreadVec(N, x, y), B |-> SpreadVec(N, z, one)] :
        N \in VecDims, x \in E, y \in E, z \in E}

\* c = (a + b) - b;
VecAddSub ==
    /\ arg.kind = "add_sub"
    /\ IF arg.T = "int" /\ SumOverflows(arg.A, arg.B)
       THEN \E ub \in SignedOverflow :
               op' = IF ub = "wraps"
                     THEN [name |-> "add_sub", trapped |-> FALSE,
                           out |-> vec_sub_wrap(vec_add_wrap(arg.A, arg.B), arg.B)]
                     ELSE [name |-> "add_sub", trapped |-> TRUE, out |-> arg.B]
       ELSE op' = [name |-> "add_sub", trapped |-> FALSE,
                   out |-> vec_sub(arg.T, vec_add(arg.T, arg.A, arg.B), arg.B)]
    /\ UNCHANGED <<arg, build, hw, lvl, lastSet, test, tprior>>

\* floats -1, -1/2, 0, 1/2, 1, 2
FracElems == {f32_div(f32_of_int(n), f32_of_int(2)) : n \in {-2, -1, 0, 1, 2, 4}}

\* integer-valued floats
FloatElems == {0, 1, -2, 3}

ElemsOf(T) == CASE T = "int" -> Coord [] T = "float" -> FloatElems
                [] OTHER -> FracElems

\* the sample of vector elements: for binary32 it holds 2^24 and -2^24, which
\* absorb a +1, so that the order of a summation shows
VecElemsOf(T) == IF T = "f32"
                 THEN {f32_of_int(n) : n \in {0, 1, -2, BigF, -BigF}}
                 ELSE ElemsOf(T)

Vec3s(T) == {MkVec3(x, y, z) : x \in ElemsOf(T), y \in ElemsOf(T), z \in ElemsOf(T)}

\* the vectors of the test: a = (1,2,3), b = (4,5,6)
TestA == MkVec3(1, 2, 3)
TestB == MkVec3(4, 5, 6)

VecOpsLeft(T) == {MkVec3(x, y, z) : x \in VecElemsOf(T), y \in VecElemsOf(T),
                                      z \in VecElemsOf(T)}

VecOpsArgs ==
    UNION {
      {[kind |-> "vec_ops", T |-> T, A |-> a, B |-> MkVec3(y, x, One)] :
          a \in VecOpsLeft(T), x \in VecElemsOf(T), y \in VecElemsOf(T), One \in {Lit(T, 1)}}
        \cup {[kind |-> "vec_ops", T |-> T, A |-> VecOf(T, TestA), B |-> VecOf(T, TestB)]}
        \cup {[kind |-> "vec_ops", T |-> T, A |-> SpreadVec(N, x, y), B |-> SpreadVec(N, y, x)] :
                N \in {2, 4}, x \in VecElemsOf(T), y \in VecElemsOf(T)}
      : T \in {"int", "float", "f32"}}

\* a + b, a - b, vec_dot(a, b), vec3_cross(a, b), vec3_cross(b, a)
VecOps ==
    /\ arg.kind = "vec_ops"
    /\ op' = [name |-> "vec_ops",
              add |-> vec_add(arg.T, arg.A, arg.B),
              sub |-> vec_sub(arg.T, arg.A, arg.B),
              dot |-> vec_dot(arg.T, arg.A, arg.B),
              cab |-> IF VLen(arg.A) = 3 THEN vec3_cross(arg.T, arg.A, arg.B) ELSE arg.A,
              cba |-> IF VLen(arg.A) = 3 THEN vec3_cross(arg.T, arg.B, arg.A) ELSE arg.A]
    /\ UNCHANGED <<arg, build, hw, lvl, lastSet, test, tprior>>

QuatsOf(T) == {MkQuat(x, y, z, w) : x \in ElemsOf(T), y \in ElemsOf(T),
                                    z \in ElemsOf(T), w \in ElemsOf(T)}

\* the quaternion of the test: q = (1, 2, 3, 4)
TestQ(T) == MkQuat(Lit(T, 1), Lit(T, 2), Lit(T, 3), Lit(T, 4))

QuatTypes == {"int", "f32"}

BasisI(T) == MkQuat(Lit(T, 1), Lit(T, 0), Lit(T, 0), Lit(T, 0))
BasisJ(T) == MkQuat(Lit(T, 0), Lit(T, 1), Lit(T, 0), Lit(T, 0))
BasisK(T) == MkQuat(Lit(T, 0), Lit(T, 0), Lit(T, 1), Lit(T, 0))

RightQuats(T) == {BasisI(T), BasisJ(T), BasisK(T), quat_identity(T), TestQ(T),
                  MkQuat(Lit(T, 1), Lit(T, -2), Lit(T, 2), Lit(T, -1))}

\* the quaternions of the sample with quat_dot(q, q) == 1
UnitQuats(T) == {q \in QuatsOf(T) : quat_dot(T, q, q) = Lit(T, 1)}

InitVQ ==
    /\ build = {"__x86_64__", "__SSE2__"}
    /\ hw = Avx2Machine
    /\ lvl = "uninit"
    /\ lastSet = "nil"
    /\ test = NoTest
    /\ tprior = "nil"
    /\ op = NoOp
    /\ \/ arg \in AddSubArgs("int", IntElems, 1)
       \/ arg \in AddSubArgs("unsigned", UnsignedElems, u32_of_int(1))
       \/ arg \in VecOpsArgs
       \/ \E T \in QuatTypes :
            arg \in [kind : {"mul_conj"}, T : {T}, Q : QuatsOf(T) \cup {TestQ(T)}]
       \/ \E T \in QuatTypes :
            arg \in [kind : {"quat_mul"}, T : {T}, P : QuatsOf(T) \cup {TestQ(T)},
                     Q : RightQuats(T)]
       \/ \E T \in QuatTypes :
            arg \in [kind : {"quat_rot"}, T : {T}, Q : UnitQuats(T), V : Vec3s(T)]
       \/ \E T \in QuatTypes :
            \/ arg \in [kind : {"to_mat"}, T : {T}, Q : UnitQuats(T), V : Vec3s(T)]
            \/ arg \in [kind : {"to_mat"}, T : {T}, Q : QuatsOf(T),
                        V : {VecOf(T, TestA)}]

\* qq = quat_mul(q, quat_conj(q));
QuatMulConj ==
    /\ arg.kind = "mul_conj"
    /\ op' = [name |-> "mul_conj",
              out |-> quat_mul(arg.T, arg.Q, quat_conj(arg.T, arg.Q)),
              dot |-> quat_dot(arg.T, arg.Q, arg.Q)]
    /\ UNCHANGED <<arg, build, hw, lvl, lastSet, test, tprior>>

\* r = quat_mul(p, q);
QuatMul ==
    /\ arg.kind = "quat_mul"
    /\ op' = [name |-> "quat_mul", out |-> quat_mul(arg.T, arg.P, arg.Q)]
    /\ UNCHANGED <<arg, build, hw, lvl, lastSet, test, tprior>>

\* r = quat_mul_vec3(q, v);  and the sandwich product q * (v, 0) * conj(q)
QuatRotate ==
    /\ arg.kind = "quat_rot"
    /\ op' = [name |-> "quat_rot",
              out |-> quat_mul_vec3(arg.T, arg.Q, arg.V),
              sandwich |-> quat_mul(arg.T,
                                    quat_mul(arg.T, arg.Q, Quat(arg.V, Lit(arg.T, 0))),
                                    quat_conj(arg.T, arg.Q))]
    /\ UNCHANGED <<arg, build, hw, lvl, lastSet, test, tprior>>

\* M = mat4_from_quat(q);  r = M * (v, 1);
QuatToMat ==
    /\ arg.kind = "to_mat"
    /\ LET M == mat4_from_quat(arg.T, arg.Q)
           p == MkVec4(arg.V[0], arg.V[1], arg.V[2], Lit(arg.T, 1))
       IN  op' = [name |-> "to_mat", M |-> M,
                  out |-> op_mul_vec(arg.T, M, p),
                  rot |-> quat_mul_vec3(arg.T, arg.Q, arg.V)]
    /\ UNCHANGED <<arg, build, hw, lvl, lastSet, test, tprior>>

NextVQ ==
    \/ VecAddSub
    \/ VecOps
    \/ QuatMulConj
    \/ QuatMul
    \/ QuatRotate
    \/ QuatToMat

SpecVQ == InitVQ /\ [][NextVQ]_vars

----------------------------------------------------------------------------
(* Properties of the vector and quaternion algebra *)

\* operator== on two elements of type T
Same(T, x, y) == IF T = "f32" THEN f32_eq(x, y) ELSE x = y

VecSame(T, A, B) == \A i \in DOMAIN A : Same(T, A[i], B[i])

QuatSame(T, A, B) == VecSame(T, A.v, B.v) /\ Same(T, A.w, B.w)

\* C12 as stated: for int and unsigned vectors of dimension 2, 3 and 4,
\* (a + b) - b == a exactly, also when the addition wraps.
C12_AddSubRoundTrip ==
    op.name = "add_sub" => (~op.trapped /\ op.out = arg.A)

\* C12, amended: (a + b) - b == a for unsigned vectors always, and for int
\* vectors whenever no element sum overflows or the overflow wraps around.
C12_AddSubRoundTripNoOverflow ==
    op.name = "add_sub" =>
        /\ (arg.T = "unsigned" \/ ~SumOverflows(arg.A, arg.B)) => ~op.trapped
        /\ ~op.trapped => op.out = arg.A

C12_Witness ==
    /\ op.name = "add_sub"
    /\ arg.T = "unsigned"
    /\ VLen(arg.A) = 4
    /\ arg.A[0] = U32(Half - 1, Half - 1)
    /\ arg.B[0] = U32(Half - 1, Half - 1)
    /\ u32_add(arg.A[0], arg.B[0]) = U32(Half - 1, Half - 2)
    /\ op.out = arg.A

\* C16: quat_mul(q, quat_conj(q)) has a zero vector part and its scalar part
\* is quat_dot(q, q), the sum of the four squares: exactly for int, within
\* 1e-5 for float, where the test's q = (1,2,3,4) gives (0,0,0,30).
C16_MulConjIsNormSquared ==
    op.name = "mul_conj" =>
        LET q == arg.Q
        IN  /\ arg.T = "int" =>
                  /\ op.out.v = MkVec3(0, 0, 0)
                  /\ op.out.w = op.dot
                  /\ op.dot = q.v[0] * q.v[0] + q.v[1] * q.v[1]
                                + q.v[2] * q.v[2] + q.w * q.w
            /\ arg.T = "f32" =>
                  /\ VecWithin(op.out.v, vec_zero("f32", 3), Tol5)
                  /\ Within(op.out.w, op.dot, Tol5)
            /\ q = TestQ(arg.T) => Same(arg.T, op.out.w, Lit(arg.T, 30))

C16_Witness ==
    /\ op.name = "mul_conj"
    /\ arg.T = "f32"
    /\ arg.Q = TestQ("f32")
    /\ op.out = MkQuat(F32Zero, F32Zero, F32Zero, f32_of_int(30))
    /\ op.dot = f32_of_int(30)

\* the i-th component of cross(P.v, Q.v) + P.v * Q.w + Q.v * P.w, where j and k
\* follow i cyclically
HamiltonVec(T, P, Q, i, j, k) ==
    Add(T, Add(T, Sub(T, Mul(T, P.v[j], Q.v[k]), Mul(T, P.v[k], Q.v[j])),
               Mul(T, P.v[i], Q.w)),
        Mul(T, Q.v[i], P.w))

HamiltonScalar(T, P, Q) ==
    Sub(T, Mul(T, P.w, Q.w),
        Add(T, Add(T, Add(T, Lit(T, 0), Mul(T, P.v[0], Q.v[0])),
                   Mul(T, P.v[1], Q.v[1])),
            Mul(T, P.v[2], Q.v[2])))

\* C17: quat_mul(p, q) is the Hamilton product, (cross(p.v, q.v) + p.v*q.w +
\* q.v*p.w, p.w*q.w - dot(p.v, q.v)); the identity is neutral on both sides;
\* i * j = k and j * i = -k.
C17_HamiltonProduct ==
    op.name = "quat_mul" =>
        LET T == arg.T
            P == arg.P
            Q == arg.Q
        IN  /\ op.out.v = MkVec3(HamiltonVec(T, P, Q, 0, 1, 2),
                                 HamiltonVec(T, P, Q, 1, 2, 0),
                                 HamiltonVec(T, P, Q, 2, 0, 1))
            /\ op.out.w = HamiltonScalar(T, P, Q)
            /\ Q = quat_identity(T) => QuatSame(T, op.out, P)
            /\ P = quat_identity(T) => QuatSame(T, op.out, Q)
            /\ (P = BasisI(T) /\ Q = BasisJ(T)) => QuatSame(T, op.out, BasisK(T))
            /\ (P = BasisJ(T) /\ Q = BasisI(T)) =>
                  QuatSame(T, op.out, MkQuat(Lit(T, 0), Lit(T, 0), Lit(T, -1), Lit(T, 0)))

C17_Witness ==
    /\ op.name = "quat_mul"
    /\ arg.T = "int"
    /\ arg.P = BasisJ("int")
    /\ arg.Q = BasisI("int")
    /\ op.out = MkQuat(0, 0, -1, 0)

\* C18: for a unit quaternion q (quat_dot(q, q) == 1) quat_mul_vec3(q, v) is
\* the vector part of q * (v, 0) * conj(q), whose scalar part is 0; and
\* quat_mul_vec3(identity, v) == v.
C18_RotateIsSandwich ==
    (op.name = "quat_rot" /\ quat_dot(arg.T, arg.Q, arg.Q) = Lit(arg.T, 1)) =>
        /\ VecSame(arg.T, op.out, op.sandwich.v)
        /\ Same(arg.T, op.sandwich.w, Lit(arg.T, 0))
        /\ arg.Q = quat_identity(arg.T) => VecSame(arg.T, op.out, arg.V)

C18_Witness ==
    /\ op.name = "quat_rot"
    /\ arg.T = "f32"
    /\ arg.Q = MkQuat(F32Half, F32Half, F32Half, F32Half)
    /\ arg.V = VecOf("f32", MkVec3(1, 0, 0))
    /\ VecSame("f32", op.out, VecOf("f32", MkVec3(0, 1, 0)))
    /\ VecSame("f32", op.sandwich.v, op.out)

\* C19: mat4_from_quat(q) has M[3][3] = 1 and zeros in the rest of column 3
\* and row 3 for every q; for a unit q, M * (v, 1) = (quat_mul_vec3(q, v), 1);
\* the identity quaternion gives the identity matrix.
C19_MatFromQuat ==
    op.name = "to_mat" =>
        LET T == arg.T
        IN  /\ op.M[3][3] = Lit(T, 1)
            /\ \A i \in Idx(3) : op.M[3][i] = Lit(T, 0) /\ op.M[i][3] = Lit(T, 0)
            /\ quat_dot(T, arg.Q, arg.Q) = Lit(T, 1) =>
                  VecSame(T, op.out,
                          MkVec4(op.rot[0], op.rot[1], op.rot[2], Lit(T, 1)))
            /\ arg.Q = quat_identity(T) =>
                  \A c \in Idx(4) : VecSame(T, op.M[c], MatOf(T, mat_identity(4))[c])

C19_Witness ==
    /\ op.name = "to_mat"
    /\ arg.T = "f32"
    /\ arg.Q = MkQuat(F32Half, F32Half, F32Half, F32Half)
    /\ arg.V = VecOf("f32", MkVec3(1, 0, 0))
    /\ VecSame("f32", op.out, VecOf("f32", MkVec4(0, 1, 0, 1)))
    /\ VecSame("f32", op.M[0], VecOf("f32", MkVec4(0, 1, 0, 0)))

\* C20: vec_add / vec_sub work element by element; vec_dot sums A[i]*B[i]
\* from index 0 upwards into a zero accumulator; vec3_cross is right-handed,
\* (a1 b2 - a2 b1, a2 b0 - a0 b2, a0 b1 - a1 b0), and cross(a, b) ==
\* -cross(b, a); a = (1,2,3), b = (4,5,6) give a + b = (5,7,9), dot 32 and
\* cross (-3,6,-3).
C20_VecArithmetic ==
    op.name = "vec_ops" =>
        LET T == arg.T
            A == arg.A
            B == arg.B
        IN  /\ \A i \in DOMAIN A : /\ op.add[i] = Add(T, A[i], B[i])
                                   /\ op.sub[i] = Sub(T, A[i], B[i])
            /\ VLen(A) = 2 =>
                  op.dot = Add(T, Add(T, Lit(T, 0), Mul(T, A[0], B[0])),
                               Mul(T, A[1], B[1]))
            /\ VLen(A) = 3 =>
                  /\ op.dot = Add(T, Add(T, Add(T, Lit(T, 0), Mul(T, A[0], B[0])),
                                         Mul(T, A[1], B[1])),
                                  Mul(T, A[2], B[2]))
                  /\ op.cab = MkVec3(Sub(T, Mul(T, A[1], B[2]), Mul(T, A[2], B[1])),
                                     Sub(T, Mul(T, A[2], B[0]), Mul(T, A[0], B[2])),
                                     Sub(T, Mul(T, A[0], B[1]), Mul(T, A[1], B[0])))
                  /\ VecSame(T, op.cab, vec_neg(T, op.cba))
            /\ (A = VecOf(T, TestA) /\ B = VecOf(T, TestB)) =>
                  /\ op.add = VecOf(T, MkVec3(5, 7, 9))
                  /\ op.dot = Lit(T, 32)
                  /\ op.cab = VecOf(T, MkVec3(-3, 6, -3))

\* the summation order shows: (2^24 + 1) - 2^24 is 0 in binary32, while
\* (-2^24 + 1) + 2^24 is 1
C20_Witness ==
    /\ op.name = "vec_ops"
    /\ arg.T = "f32"
    /\ arg.A = VecOf("f32", MkVec3(BigF, 1, -BigF))
    /\ arg.B = VecOf("f32", MkVec3(1, 1, 1))
    /\ op.dot = F32Zero
    /\ f32_add(f32_add(f32_add(F32Zero, arg.A[2]), arg.A[1]), arg.A[0]) = F32One
    /\ op.cab = VecOf("f32", MkVec3(BigF + 1, -2 * BigF, BigF - 1))

----------------------------------------------------------------------------
(* Properties of the pivot of quat_from_mat4 *)

\* C24: the pivot p[0] of quat_from_mat4 is the index of the largest of
\* M[0][0], M[1][1], M[2][2] for every sign pattern of the diagonal, and
\* p[1], p[2] follow it cyclically.
C24_PivotIsLargestDiagonal ==
    op.name = "from_mat4" =>
        /\ \A i \in Idx(3) : ~f32_lt(arg.M[op.p[1]][op.p[1]], arg.M[i][i])
        /\ op.p[2] = (op.p[1] + 1) % 3
        /\ op.p[3] = (op.p[1] + 2) % 3

----------------------------------------------------------------------------
(* Transforms: transpose, 2D and 3D translation, projections, and the
   quaternion <-> matrix round trip *)

\* mat_transpose that copies without swapping the indices
mat_transpose_copy(M) ==
    [c \in Idx(Cols(M)) |-> [r \in Idx(Rows(M)) |-> M[c][r]]]

\* mat<T,R,C> Rm{};  Rm[r][c] = M[c][r]  for c < C, r < R
mat_transpose(M) ==
    [r \in Idx(Rows(M)) |-> [c \in Idx(Cols(M)) |-> M[c][r]]]

\* the element accesses of mat_transpose's loop on a mat<T,C,R>
TransposeAccesses(C, R) ==
    {[dst |-> <<r, c>>, src |-> <<c, r>>] : c \in Idx(C), r \in Idx(R)}

\* mat<T,C,R>{}
mat_zero(C, R) == [c \in Idx(C) |-> [r \in Idx(R) |-> 0]]

mat2x3_translate(x, y) ==
    [mat_zero(2, 3) EXCEPT ![0][0] = 1, ![1][1] = 1, ![1][2] = x, ![0][2] = y]

mat3_translate(x, y) ==
    [mat_identity(3) EXCEPT ![2][0] = x, ![2][1] = y]

\* lmath::mat4::row(m, i):  r[k] = m[k][i]
lmath_row(M, i) == [k \in Idx(4) |-> M[k][i]]

\* lmath::mat4::translate(x, y, z)
lmath_translate(T, x, y, z) ==
    [MatOf(T, mat_identity(4)) EXCEPT ![3][0] = x, ![3][1] = y, ![3][2] = z]

\* translate_in_place whose t is (x, y, z, 1)
RECURSIVE translate_in_place_w1(_, _, _, _)
translate_in_place_w1(T, M, t, i) ==
    IF i >= 4 THEN M
    ELSE translate_in_place_w1(T,
             [M EXCEPT ![3][i] = Add(T, M[3][i],
                                     vec_dot(T, lmath_row(M, i), [t EXCEPT ![3] = Lit(T, 1)]))],
             t, i + 1)

\* lmath::mat4::translate_in_place, from iteration i on, t = (x, y, z, 0):
\*   r = row(*this, i);  (*this)[3][i] += dot(r, t);
RECURSIVE translate_in_place(_, _, _, _)
translate_in_place(T, M, t, i) ==
    IF i >= 4 THEN M
    ELSE translate_in_place(T,
             [M EXCEPT ![3][i] = Add(T, M[3][i], vec_dot(T, lmath_row(M, i), t))],
             t, i + 1)

RECURSIVE TanReduceDown(_)
\* while (X > PI) X -= PI_DOUBLE;
TanReduceDown(X) ==
    IF f32_lt(PI, X) THEN TanReduceDown(f32_sub(X, PI_DOUBLE)) ELSE X

RECURSIVE TanReduceUp(_)
\* while (X < -PI) X += PI_DOUBLE;
TanReduceUp(X) ==
    IF f32_lt(X, f32_neg(PI)) THEN TanReduceUp(f32_add(X, PI_DOUBLE)) ELSE X

\* X + X*x2 * (1.f/3.f + x2*(2.f/15.f + x2*(17.f/315.f)))
TanPoly(X, x2) ==
    f32_add(X, f32_mul(f32_mul(X, x2),
                       f32_add(f32_div(F32One, f32_of_int(3)),
                               f32_mul(x2, f32_add(f32_div(f32_of_int(2), f32_of_int(15)),
                                                   f32_mul(x2, f32_div(f32_of_int(17),
                                                                       f32_of_int(315))))))))

\* x2 is taken from the argument before the range reduction
tanf(X0) == TanPoly(TanReduceUp(TanReduceDown(X0)), f32_mul(X0, X0))

\* mat4_ortho with the depth range [0,1]
mat4_ortho_zero_to_one(l, r, b, t, n, f) ==
    [MatOf("f32", mat_zero(4, 4))
        EXCEPT ![0][0] = f32_div(f32_of_int(2), f32_sub(r, l)),
               ![1][1] = f32_div(f32_of_int(2), f32_sub(t, b)),
               ![2][2] = f32_div(f32_of_int(-1), f32_sub(f, n)),
               ![3][0] = f32_div(f32_neg(f32_add(r, l)), f32_sub(r, l)),
               ![3][1] = f32_div(f32_neg(f32_add(t, b)), f32_sub(t, b)),
               ![3][2] = f32_div(f32_neg(n), f32_sub(f, n)),
               ![3][3] = F32One]

mat4_ortho(l, r, b, t, n, f) ==
    [MatOf("f32", mat_zero(4, 4))
        EXCEPT ![0][0] = f32_div(f32_of_int(2), f32_sub(r, l)),
               ![1][1] = f32_div(f32_of_int(2), f32_sub(t, b)),
               ![2][2] = f32_div(f32_of_int(-2), f32_sub(f, n)),
               ![3][0] = f32_div(f32_neg(f32_add(r, l)), f32_sub(r, l)),
               ![3][1] = f32_div(f32_neg(f32_add(t, b)), f32_sub(t, b)),
               ![3][2] = f32_div(f32_neg(f32_add(f, n)), f32_sub(f, n)),
               ![3][3] = F32One]

\* the matrix of mat4_perspective, from a = 1.f / tanf(fov_y * 0.5f)
PerspectiveOf(a, aspect, n, f) ==
    [MatOf("f32", mat_zero(4, 4))
        EXCEPT ![0][0] = f32_div(a, aspect),
               ![1][1] = a,
               ![2][2] = f32_div(f32_neg(f32_add(f, n)), f32_sub(f, n)),
               ![2][3] = f32_of_int(-1),
               ![3][2] = f32_div(f32_neg(f32_mul(f32_mul(f32_of_int(2), f), n)),
                                 f32_sub(f, n))]

mat4_perspective(fov_y, aspect, n, f) ==
    PerspectiveOf(f32_div(F32One, tanf(f32_mul(fov_y, F32Half))), aspect, n, f)

\* near and far planes of the sample: behind the eye, at the eye, in front
PlaneElems == {f32_of_int(-2), F32Zero, F32Half, F32One, f32_of_int(3), f32_of_int(100)}

PlanePairs == {p \in PlaneElems \X PlaneElems : p[1] # p[2]}

\* left/right and bottom/top of the sample
SidePairs == {<<f32_of_int(-1), F32One>>, <<F32Zero, f32_of_int(3)>>,
              <<f32_of_int(2), f32_of_int(-2)>>}

TransposeMats ==
    {GenMat(C, R, s, t) : C \in Dims, R \in Dims, s \in Coord, t \in {-1, 2}}

InitXform ==
    /\ build = {"__x86_64__", "__SSE2__"}
    /\ hw = Avx2Machine
    /\ lvl = "uninit"
    /\ lastSet = "nil"
    /\ test = NoTest
    /\ tprior = "nil"
    /\ op = NoOp
    /\ \/ arg \in [kind : {"round_trip"}, Q : UnitQuats("f32"), pun : PunReads]
       \/ arg \in [kind : {"transpose"}, M : TransposeMats]
       \/ arg \in [kind : {"translate2d"}, x : Coord, y : Coord]
       \/ arg \in [kind : {"ortho"}, lr : SidePairs, bt : SidePairs, nf : PlanePairs]
       \/ arg \in [kind : {"perspective"}, fov_y : {PI_HALF, F32One},
                   aspect : {F32One, f32_of_int(2)}, nf : PlanePairs]
       \/ arg \in [kind : {"translate3d"}, M : SqMats("int", 4),
                   x : Coord, y : Coord, z : Coord]

\* M = mat4_from_quat(q);  r = quat_from_mat4(M);
RoundTrip ==
    /\ arg.kind = "round_trip"
    /\ \E M \in {mat4_from_quat("f32", arg.Q)} :
         op' = [name |-> "round_trip", M |-> M, p |-> Pivot(M)[2],
                out |-> quat_from_mat4(M, arg.pun)]
    /\ UNCHANGED <<arg, build, hw, lvl, lastSet, test, tprior>>

\* Mt = mat_transpose(M);  Mtt = mat_transpose(Mt);
Transpose ==
    /\ arg.kind = "transpose"
    /\ \E Mt \in {mat_transpose(arg.M)} :
         op' = [name |-> "transpose", out |-> Mt, back |-> mat_transpose(Mt),
                acc |-> TransposeAccesses(Cols(arg.M), Rows(arg.M))]
    /\ UNCHANGED <<arg, build, hw, lvl, lastSet, test, tprior>>

\* M = mat2x3_translate(x, y);  M3 = mat3_translate(x, y);
Translate2D ==
    /\ arg.kind = "translate2d"
    /\ op' = [name |-> "translate2d", out |-> mat2x3_translate(arg.x, arg.y),
              m3 |-> mat3_translate(arg.x, arg.y)]
    /\ UNCHANGED <<arg, build, hw, lvl, lastSet, test, tprior>>

\* P = mat4::mul(M, mat4::translate(x, y, z));  M.translate_in_place(x, y, z);
Translate3D ==
    /\ arg.kind = "translate3d"
    /\ op' = [name |-> "translate3d",
              out |-> translate_in_place("int", arg.M, MkVec4(arg.x, arg.y, arg.z, 0), 0),
              prod |-> mat_mul("int", arg.M, lmath_translate("int", arg.x, arg.y, arg.z))]
    /\ UNCHANGED <<arg, build, hw, lvl, lastSet, test, tprior>>

\* M = mat4_ortho(l, r, b, t, n, f);  M * (l, b, -n, 1);  M * (r, t, -f, 1);
Ortho ==
    /\ arg.kind = "ortho"
    /\ \E M \in {mat4_ortho(arg.lr[1], arg.lr[2], arg.bt[1], arg.bt[2],
                             arg.nf[1], arg.nf[2])} :
         op' = [name |-> "ortho", M |-> M,
                near |-> mat_mul_vec("f32", M, MkVec4(arg.lr[1], arg.bt[1],
                                                      f32_neg(arg.nf[1]), F32One)),
                far  |-> mat_mul_vec("f32", M, MkVec4(arg.lr[2], arg.bt[2],
                                                      f32_neg(arg.nf[2]), F32One))]
    /\ UNCHANGED <<arg, build, hw, lvl, lastSet, test, tprior>>

\* M = mat4_perspective(fov_y, aspect, n, f);  M * (0, 0, -n, 1);  M * (0, 0, -f, 1);
Perspective ==
    /\ arg.kind = "perspective"
    /\ \E M \in {mat4_perspective(arg.fov_y, arg.aspect, arg.nf[1], arg.nf[2])} :
         op' = [name |-> "perspective", M |-> M,
                near |-> mat_mul_vec("f32", M, MkVec4(F32Zero, F32Zero,
                                                      f32_neg(arg.nf[1]), F32One)),
                far  |-> mat_mul_vec("f32", M, MkVec4(F32Zero, F32Zero,
                                                      f32_neg(arg.nf[2]), F32One))]
    /\ UNCHANGED <<arg, build, hw, lvl, lastSet, test, tprior>>

NextXform ==
    \/ RoundTrip
    \/ Transpose
    \/ Translate2D
    \/ Translate3D
    \/ Ortho
    \/ Perspective

SpecXform == InitXform /\ [][NextXform]_vars

----------------------------------------------------------------------------
(* Properties of the transforms *)

\* C26: for every unit quaternion q, quat_from_mat4(mat4_from_quat(q)) equals
\* q or -q, with the components in (x, y, z, w) order whichever pivot is
\* chosen; the identity quaternion and (0,1,0,0) round-trip to themselves up
\* to sign.
C26_QuatMatRoundTrip ==
    op.name = "round_trip" =>
        \/ QuatSame("f32", op.out, arg.Q)
        \/ QuatSame("f32", op.out, Quat(vec_neg("f32", arg.Q.v), f32_neg(arg.Q.w)))

\* C22: for a matrix M of C columns and R rows, square or not,
\* mat_transpose(M) has R columns and C rows, result[r][c] == M[c][r], every
\* index of the loop stays within the bounds of its matrix, and transposing
\* twice gives M back.
C22_Transpose ==
    op.name = "transpose" =>
        /\ DOMAIN op.out = Idx(Rows(arg.M))
        /\ \A r \in DOMAIN op.out : DOMAIN op.out[r] = Idx(Cols(arg.M))
        /\ \A c \in Idx(Cols(arg.M)) : \A r \in Idx(Rows(arg.M)) :
               op.out[r][c] = arg.M[c][r]
        /\ \A a \in op.acc :
               /\ a.dst[1] \in DOMAIN op.out /\ a.dst[2] \in DOMAIN op.out[a.dst[1]]
               /\ a.src[1] \in DOMAIN arg.M /\ a.src[2] \in DOMAIN arg.M[a.src[1]]
        /\ DOMAIN op.back = DOMAIN arg.M
        /\ mat_eq(op.back, arg.M)

C22_Witness ==
    /\ op.name = "transpose"
    /\ Cols(arg.M) = 2 /\ Rows(arg.M) = 3
    /\ op.out[0][1] # op.out[1][0]

\* C30: mat2x3_translate(x, y) has the 2x2 identity as linear part, x at
\* [0][2], the translation term of the first coordinate, and y at [1][2], the
\* translation term of the second coordinate, as mat3_translate offsets the
\* first coordinate by x and the second by y.
C30_Translate2DLayout ==
    op.name = "translate2d" =>
        /\ op.out[0][0] = 1 /\ op.out[1][1] = 1
        /\ op.out[0][1] = 0 /\ op.out[1][0] = 0
        /\ op.out[0][2] = arg.x /\ op.out[1][2] = arg.y
        /\ \A i \in Idx(2) : op.out[i][2] = op.m3[2][i]

\* C29: for an lmath::mat4 M with integer elements, M.translate_in_place(x,y,z)
\* leaves M equal to mat4::mul(M_before, mat4::translate(x,y,z)): columns 0, 1
\* and 2 are unchanged and each M[3][i] is computed from row i as it was
\* before the call.
C29_TranslateInPlace ==
    op.name = "translate3d" =>
        /\ op.out = op.prod
        /\ \A c \in Idx(3) : op.out[c] = arg.M[c]
        /\ \A i \in Idx(4) :
               op.out[3][i] = arg.M[3][i] + arg.M[0][i] * arg.x
                                  + arg.M[1][i] * arg.y + arg.M[2][i] * arg.z

C29_Witness ==
    /\ op.name = "translate3d"
    /\ \A i \in Idx(4) : arg.M[3][i] # 0 /\ op.out[3][i] # arg.M[3][i]

\* the ortho part of C21: the corner (l, b, -n) goes to (-1, -1, -1) and the
\* corner (r, t, -f) to (1, 1, 1), with w = 1
OrthoMapsCorners ==
    op.name = "ortho" =>
        /\ op.near[3] = F32One /\ op.far[3] = F32One
        /\ \A i \in Idx(3) : /\ Within(op.near[i], f32_of_int(-1), Tol5)
                             /\ Within(op.far[i], F32One, Tol5)

\* the output w of mat4_perspective is -z
PerspectiveW ==
    op.name = "perspective" =>
        /\ f32_eq(op.near[3], arg.nf[1])
        /\ f32_eq(op.far[3], arg.nf[2])

----------------------------------------------------------------------------
(* Portable sinf / cosf / tanf: the range-reduction loops, one iteration per
   step, and the functions on shifted arguments *)

MaxIters == 20       \* the iteration count n saturates at this value

\* 2^28: the floats from here on are 32 apart or more, so +-2*pi is absorbed
Pow28 == F32(0, 155 * Hidden)

ReduceElems ==
    {F32Zero, F32Half, f32_of_int(7), f32_of_int(20), f32_of_int(100), PI, PI_DOUBLE,
     Pow28, FltMax}

\* the arguments of the loops: the elements above, their negatives and -2^-100
ReduceArgs == ReduceElems \cup {f32_neg(x) : x \in ReduceElems} \cup {f32_neg(Tiny)}

\* the condition of the first loop: sinf `X >= PI_DOUBLE`, tanf `X > PI`
DownGuard(fn, X) == IF fn = "sinf" THEN f32_le(PI_DOUBLE, X) ELSE f32_lt(PI, X)

\* the condition of the second loop: sinf `X < 0.f`, tanf `X < -PI`
UpGuard(fn, X) == IF fn = "sinf" THEN f32_lt(X, F32Zero) ELSE f32_lt(X, f32_neg(PI))

Bump(n) == IF n < MaxIters THEN n + 1 ELSE n

PeriodElems == {F32Zero, F32Half, F32One, PI_HALF, f32_of_int(2), f32_of_int(3)}

\* x + 2*pi*k in float
Shifted(x, k) == f32_add(x, f32_mul(PI_DOUBLE, f32_of_int(k)))

InitTrig ==
    /\ build = {"__x86_64__", "__SSE2__"}
    /\ hw = Avx2Machine
    /\ lvl = "uninit"
    /\ lastSet = "nil"
    /\ test = NoTest
    /\ tprior = "nil"
    /\ op = NoOp
    /\ \/ arg \in [kind : {"reduce"}, fn : {"sinf", "tanf"}, x : ReduceArgs]
       \/ arg \in [kind : {"periodic"}, x : PeriodElems, k : {-1, 1, 2}]

\* entry of sinf(x) / tanf(x)
ReduceStart ==
    /\ arg.kind = "reduce"
    /\ op = NoOp
    /\ op' = [name |-> "reduce", fn |-> arg.fn, X |-> arg.x, pc |-> "down", n |-> 0]
    /\ UNCHANGED <<arg, build, hw, lvl, lastSet, test, tprior>>

\* while (X >= PI_DOUBLE) X -= PI_DOUBLE;      (tanf: while (X > PI))
LoopDown ==
    /\ op.name = "reduce"
    /\ op.pc = "down"
    /\ op' = IF DownGuard(op.fn, op.X)
             THEN [op EXCEPT !.X = f32_sub(op.X, PI_DOUBLE), !.n = Bump(op.n)]
             ELSE [op EXCEPT !.pc = "up"]
    /\ UNCHANGED <<arg, build, hw, lvl, lastSet, test, tprior>>

\* while (X < 0.f) X += PI_DOUBLE;             (tanf: while (X < -PI))
LoopUp ==
    /\ op.name = "reduce"
    /\ op.pc = "up"
    /\ op' = IF UpGuard(op.fn, op.X)
             THEN [op EXCEPT !.X = f32_add(op.X, PI_DOUBLE), !.n = Bump(op.n)]
             ELSE [op EXCEPT !.pc = "done"]
    /\ UNCHANGED <<arg, build, hw, lvl, lastSet, test, tprior>>

\* sinf, cosf and tanf at x and at x + 2*pi*k, and sinf at pi - x
Periodic ==
    /\ arg.kind = "periodic"
    /\ op = NoOp
    /\ \E xk \in {Shifted(arg.x, arg.k)} :
         op' = [name |-> "periodic", xk |-> xk,
                sin0 |-> sinf(arg.x), sink |-> sinf(xk),
                cos0 |-> cosf(arg.x), cosk |-> cosf(xk),
                tan0 |-> tanf(arg.x), tank |-> tanf(xk),
                sinr |-> sinf(f32_sub(PI, arg.x))]
    /\ UNCHANGED <<arg, build, hw, lvl, lastSet, test, tprior>>

NextTrig ==
    \/ ReduceStart
    \/ LoopDown
    \/ LoopUp
    \/ Periodic

SpecTrig == InitTrig /\ [][NextTrig]_vars

\* a thread inside sinf or tanf keeps executing: its next step is taken
SpecTrigLive == SpecTrig /\ WF_vars(NextTrig)

----------------------------------------------------------------------------
(* Properties of the portable trigonometric functions *)

\* 1e-3f, far above the rounding of one reduction step
TrigTol == f32_div(F32One, f32_of_int(1000))

\* C28: sinf depends only on its argument reduced modulo 2*pi: sinf(x + 2*pi*k)
\* equals sinf(x), sinf(pi - x) equals sinf(x) for x in [0, pi/2], and the same
\* periodicity holds for cosf and tanf, up to the rounding of the reduction.
C28_Periodic ==
    op.name = "periodic" =>
        /\ Within(op.sink, op.sin0, TrigTol)
        /\ Within(op.cosk, op.cos0, TrigTol)
        /\ Within(op.tank, op.tan0, TrigTol)
        /\ f32_le(arg.x, PI_HALF) => Within(op.sinr, op.sin0, TrigTol)

\* the loops have been left
Reduced == op.name = "reduce" /\ op.pc = "done"

\* the reduced argument is in [0, 2*pi) for sinf and in [-pi, pi] for tanf
InReducedRange ==
    IF op.fn = "sinf"
    THEN f32_le(F32Zero, op.X) /\ f32_lt(op.X, PI_DOUBLE)
    ELSE f32_le(f32_neg(PI), op.X) /\ f32_le(op.X, PI)

\* n iterations were made, with n <= |x| / (2*pi) + 1
IterationsProportional ==
    f32_le(f32_mul(f32_of_int(op.n), PI_DOUBLE), f32_add(f32_abs(arg.x), PI_DOUBLE))

\* every call of sinf / tanf leaves its two loops
LoopsTerminate == (op.name = "reduce") ~> Reduced

\* C25: for every finite x the range-reduction loops of sinf (hence cosf) and
\* tanf terminate, after a number of iterations proportional to |x| / (2*pi),
\* and leave the argument in [0, 2*pi) for sinf and in [-pi, pi] for tanf.
C25_ReductionTerminates ==
    /\ LoopsTerminate
    /\ [](Reduced => InReducedRange /\ IterationsProportional)

\* the part of C25 that holds: for the arguments of the sample below 2^28 the
\* loops terminate, and the iteration count is proportional to |x| / (2*pi)
C25_ModerateTerminates ==
    /\ (op.name = "reduce" /\ f32_lt(f32_abs(arg.x), Pow28)) ~> Reduced
    /\ [](Reduced => IterationsProportional)

\* the upper end of sinf's range is reached
C25_RangeEndReached == Reduced /\ op.fn = "sinf" /\ f32_eq(op.X, PI_DOUBLE)

----------------------------------------------------------------------------
(* Properties of the ceiling override *)

\* every x86-64 processor implements SSE2
MachineRuns(b, h) == ("__x86_64__" \in b \/ "_M_X64" \in b) => 26 \in h.edx1

\* C27: after any sequence of ceiling overrides, a dispatch-sensitive operation
\* never selects an accelerated implementation whose requirement exceeds the
\* level that runtime_level() detects on the machine.
C27_OverrideNeverEnables ==
    (op.name \in DispatchOps /\ MachineRuns(build, hw) /\ op.path # "scalar") =>
        op.path \in Qualifying(build, runtime_level(build, hw))

----------------------------------------------------------------------------
(* Concurrent first reads of the ceiling.  Each thread runs
       a = runtime_level();  f = max_level();  g = max_level();
   max_level() is `static level lvl = runtime_level(); return lvl;`: the
   initialisation of a block-scope static is guarded, one thread runs the
   initialiser and a thread that arrives meanwhile waits for it. *)

NThreads == 3

Threads == 1 .. NThreads

\* a guard that lets a thread through while the initialiser is running
guard_check_unlocked(g) == IF g = "none" THEN "init" ELSE "read"

\* what a thread that enters max_level() does, by the state of the guard
guard_check(g) ==
    CASE g = "none" -> "init" [] g = "running" -> "wait" [] OTHER -> "read"

ThreadBuilds ==
    { {"__x86_64__", "__SSE2__"},
      {"__x86_64__", "__SSE2__", "__AVX__", "__AVX2__"},
      {"__i386__", "__SSE2__"} }

InitThreads ==
    /\ build \in ThreadBuilds
    /\ hw \in HwSamples
    /\ lvl = "uninit"
    /\ lastSet = "nil"
    /\ test = NoTest
    /\ tprior = "nil"
    /\ arg = NoArg
    /\ op = [name |-> "threads", guard |-> "none", inits |-> 0, blocked |-> {},
             pc |-> [t \in Threads |-> "start"],
             rl |-> [t \in Threads |-> "nil"],
             det |-> [t \in Threads |-> "nil"],
             first |-> [t \in Threads |-> "nil"],
             last |-> [t \in Threads |-> "nil"]]

\* a = runtime_level();   reads cpuid / xgetbv into locals only
CallRuntimeLevel(t) ==
    /\ op.pc[t] = "start"
    /\ op' = [op EXCEPT !.pc[t] = "enter", !.rl[t] = runtime_level(build, hw)]
    /\ UNCHANGED <<arg, build, hw, lvl, lastSet, test, tprior>>

\* max_level(): the guard is free, this thread becomes the initialiser
GuardAcquire(t) ==
    /\ op.pc[t] \in {"enter", "again"}
    /\ guard_check(op.guard) = "init"
    /\ op' = [op EXCEPT !.pc[t] = "detect", !.guard = "running"]
    /\ UNCHANGED <<arg, build, hw, lvl, lastSet, test, tprior>>

\* the initialiser: runtime_level()
RunInitialiser(t) ==
    /\ op.pc[t] = "detect"
    /\ op' = [op EXCEPT !.pc[t] = "store", !.det[t] = runtime_level(build, hw)]
    /\ UNCHANGED <<arg, build, hw, lvl, lastSet, test, tprior>>

\* lvl is constructed from the initialiser's value and the guard is released
StoreLevel(t) ==
    /\ op.pc[t] = "store"
    /\ lvl' = op.det[t]
    /\ op' = [op EXCEPT !.pc[t] = "read", !.guard = "done", !.inits = @ + 1,
                        !.blocked = {u \in Threads : op.pc[u] = "enter"}]
    /\ UNCHANGED <<arg, build, hw, lastSet, test, tprior>>

\* max_level(): the initialisation is complete, go on to `return lvl`
GuardPass(t) ==
    /\ op.pc[t] \in {"enter", "again"}
    /\ guard_check(op.guard) = "read"
    /\ op' = [op EXCEPT !.pc[t] = IF op.pc[t] = "enter" THEN "read" ELSE "reread"]
    /\ UNCHANGED <<arg, build, hw, lvl, lastSet, test, tprior>>

\* f = max_level();   the first read of the thread
FirstRead(t) ==
    /\ op.pc[t] = "read"
    /\ op' = [op EXCEPT !.pc[t] = "again", !.first[t] = lvl]
    /\ UNCHANGED <<arg, build, hw, lvl, lastSet, test, tprior>>

\* g = max_level();   a later read
LaterRead(t) ==
    /\ op.pc[t] = "reread"
    /\ op' = [op EXCEPT !.pc[t] = "done", !.last[t] = lvl]
    /\ UNCHANGED <<arg, build, hw, lvl, lastSet, test, tprior>>

NextThreads ==
    \E t \in Threads :
        \/ CallRuntimeLevel(t)
        \/ GuardAcquire(t)
        \/ RunInitialiser(t)
        \/ StoreLevel(t)
        \/ GuardPass(t)
        \/ FirstRead(t)
        \/ LaterRead(t)

SpecThreads == InitThreads /\ [][NextThreads]_vars

----------------------------------------------------------------------------
(* Properties of the concurrent first reads *)

\* C23: when several threads make their first read of the ceiling
\* concurrently and none overrides it, in every interleaving the cell is
\* initialised to runtime_level() and every thread observes that level on
\* its first and on its later reads; concurrent calls of runtime_level()
\* return the same level and modify no shared state.
C23_ConcurrentFirstReads ==
    op.name = "threads" =>
        /\ op.inits <= 1
        /\ lvl = (IF op.guard = "done" THEN runtime_level(build, hw) ELSE "uninit")
        /\ \A t \in Threads :
               /\ op.first[t] \in {"nil", runtime_level(build, hw)}
               /\ op.last[t] \in {"nil", runtime_level(build, hw)}
               /\ op.rl[t] \in {"nil", runtime_level(build, hw)}
               /\ op.pc[t] = "done" => op.first[t] # "nil" /\ op.last[t] # "nil"

\* a thread arrived while another was initialising, and all have finished
C23_Witness ==
    /\ op.name = "threads"
    /\ op.blocked # {}
    /\ \A t \in Threads : op.pc[t] = "done" /\ op.last[t] = runtime_level(build, hw)

====
